---------------------------- MODULE Spec2Model ----------------------------
(***************************************************************************)
(* Input-event mapping and dispatch core of Stella: the KeyMap / JoyMap    *)
(* binding tables (src/common) and the EventHandler dispatch state machine *)
(* (src/emucore/EventHandler.cxx).                                         *)
(***************************************************************************)
EXTENDS Integers, Sequences, FiniteSets, TLC

VARIABLES
  kind,          \* which binding table a behaviour exercises: "key" or "joy"
  keyMap,        \* KeyMap::myMap, as the chain of stored (Mapping, event) nodes
  myModEnabled,  \* KeyMap::myModEnabled
  joyMap,        \* JoyMap::myMap
  saved,         \* the string last written by saveMapping
  lastOp,        \* the binding-table operation performed last
  myEvent,                   \* EventHandler::myEvent, the value of every event
  myAllowAllDirectionsFlag,  \* EventHandler::myAllowAllDirectionsFlag
  myFryingFlag,              \* EventHandler::myFryingFlag
  myComboTable,              \* EventHandler::myComboTable
  combomap,      \* the setting "combomap"
  ehLog,         \* the handleEvent calls made by the last dispatch, in order
  ehOp,          \* the EventHandler operation performed last
  ehFault,       \* "none", or how the process went wrong
  myState,       \* EventHandler::myState
  minimal_ui,    \* the setting "minimal_ui"
  ehTrans,       \* the setState calls made by the last operation, in order
  clearTimer,    \* whether the timeout set by reset is pending
  ehBefore,      \* myEvent as the last dispatcher or mode operation found it
  myOverlay,     \* EventHandler::myOverlay: "none" for nullptr, or the dialog
  muted,         \* the last request a mode change made of Sound::mute
  mySkipMouseMotion,  \* EventHandler::mySkipMouseMotion
  ehMode,        \* myState as the last dispatcher or mode operation found it
  ehHandled,     \* what the last changeStateByEvent returned
  ehMotions,     \* mouse motions received in EMULATION since the last setState,
                 \* counted up to MaxMotions
  eqA, eqB,      \* two key descriptors under comparison
  eqResult,      \* "unset", or the outcome of eqA == eqB: "equal" or "unequal"
  mySticks,      \* PhysicalJoystickHandler::mySticks, the sticks available by id
  myDatabase,    \* PhysicalJoystickHandler::myDatabase, the sticks known by name
  actionKeys,    \* the key strings of ourEmulActionList and ourMenuActionList
  regSaved,      \* per name: whether it is remembered, and the bindings last saved
  stickOp,       \* the operation of PhysicalJoystickHandler performed last
  image,         \* the ROM image handed to ControllerDetector
  port,          \* the port asked about: "Left" or "Right"
  signature,     \* the byte sequence handed to searchForBytes
  detOp,         \* the ControllerDetector function applied last, and its result
  myDialogStack,        \* DialogContainer::myDialogStack, as the number of dialogs
  myTime,               \* DialogContainer::myTime, in milliseconds
  myCurrentMouseDown,   \* DialogContainer::myCurrentMouseDown
  myClickRepeatTime,    \* DialogContainer::myClickRepeatTime
  myCurrentButtonDown,  \* DialogContainer::myCurrentButtonDown
  myButtonRepeatTime,   \* DialogContainer::myButtonRepeatTime
  myCurrentAxisDown,    \* DialogContainer::myCurrentAxisDown
  myAxisRepeatTime,     \* DialogContainer::myAxisRepeatTime
  myCurrentHatDown,     \* DialogContainer::myCurrentHatDown
  myHatRepeatTime,      \* DialogContainer::myHatRepeatTime
  dcPressed,     \* per kind of input: myTime when the press held now was recorded
  dcRepeated,    \* per kind of input: myTime of the last repeat of that press, or -1
  dcOp           \* the DialogContainer operation performed last, what it sent to
                 \* the dialog on top, and what it found

mapVars == <<kind, keyMap, myModEnabled, joyMap, saved, lastOp>>

uiVars == <<myOverlay, muted, mySkipMouseMotion, ehMode, ehHandled, ehMotions>>

modeVars == <<myState, minimal_ui, ehTrans, clearTimer, ehBefore, uiVars>>

ehVars == <<myEvent, myAllowAllDirectionsFlag, myFryingFlag, myComboTable,
            combomap, ehLog, ehOp, ehFault, modeVars>>

eqVars == <<eqA, eqB, eqResult>>

stickVars == <<mySticks, myDatabase, actionKeys, regSaved, stickOp>>

detVars == <<image, port, signature, detOp>>

dcVars == <<myDialogStack, myTime, myCurrentMouseDown, myClickRepeatTime,
            myCurrentButtonDown, myButtonRepeatTime, myCurrentAxisDown,
            myAxisRepeatTime, myCurrentHatDown, myHatRepeatTime,
            dcPressed, dcRepeated, dcOp>>

vars == <<mapVars, ehVars, eqVars, stickVars, detVars, dcVars>>

----------------------------------------------------------------------------
(* Bounds of the model *)

\* key codes 1..MaxKey
MaxKey == 1
\* joystick buttons 0..MaxButton
MaxButton == 0
\* number of nodes a binding table holds at most
MaxEntries == 2

----------------------------------------------------------------------------
(* EventHandler::ourEmulActionList: the event of every entry, in order.    *)
(* Index idx of the C++ array is element idx + 1.                          *)

ourEmulActionList == <<
  "Quit", "ExitMode", "OptionsMenuMode", "CmdMenuMode", "DebuggerMode",
  "ConsoleSelect", "ConsoleReset", "ConsoleColor", "ConsoleBlackWhite",
  "ConsoleColorToggle", "Console7800Pause", "ConsoleLeftDiffA",
  "ConsoleLeftDiffB", "ConsoleLeftDiffToggle", "ConsoleRightDiffA",
  "ConsoleRightDiffB", "ConsoleRightDiffToggle", "SaveState", "ChangeState",
  "ToggleAutoSlot", "LoadState", "TakeSnapshot", "TogglePauseMode",
  "StartPauseMode", "JoystickZeroUp", "JoystickZeroDown",
  "JoystickZeroLeft", "JoystickZeroRight", "JoystickZeroFire",
  "JoystickZeroFire5", "JoystickZeroFire9", "JoystickOneUp",
  "JoystickOneDown", "JoystickOneLeft", "JoystickOneRight",
  "JoystickOneFire", "JoystickOneFire5", "JoystickOneFire9",
  "PaddleZeroAnalog", "PaddleZeroDecrease", "PaddleZeroIncrease",
  "PaddleZeroFire", "PaddleOneAnalog", "PaddleOneDecrease",
  "PaddleOneIncrease", "PaddleOneFire", "PaddleTwoAnalog",
  "PaddleTwoDecrease", "PaddleTwoIncrease", "PaddleTwoFire",
  "PaddleThreeAnalog", "PaddleThreeDecrease", "PaddleThreeIncrease",
  "PaddleThreeFire", "KeyboardZero1", "KeyboardZero2", "KeyboardZero3",
  "KeyboardZero4", "KeyboardZero5", "KeyboardZero6", "KeyboardZero7",
  "KeyboardZero8", "KeyboardZero9", "KeyboardZeroStar", "KeyboardZero0",
  "KeyboardZeroPound", "KeyboardOne1", "KeyboardOne2", "KeyboardOne3",
  "KeyboardOne4", "KeyboardOne5", "KeyboardOne6", "KeyboardOne7",
  "KeyboardOne8", "KeyboardOne9", "KeyboardOneStar", "KeyboardOne0",
  "KeyboardOnePound", "VidmodeStd", "VidmodeRGB", "VidmodeSVideo",
  "VidModeComposite", "VidModeBad", "VidModeCustom", "PreviousAttribute",
  "NextAttribute", "DecreaseAttribute", "IncreaseAttribute",
  "TogglePhosphor", "DecreasePhosphor", "IncreasePhosphor",
  "ScanlinesDecrease", "ScanlinesIncrease", "ToggleFrameStats",
  "ToggleP0Bit", "ToggleP0Collision", "ToggleP1Bit", "ToggleP1Collision",
  "ToggleM0Bit", "ToggleM0Collision", "ToggleM1Bit", "ToggleM1Collision",
  "ToggleBLBit", "ToggleBLCollision", "TogglePFBit", "TogglePFCollision",
  "ToggleBits", "ToggleCollisions", "ToggleFixedColors", "ToggleColorLoss",
  "ToggleJitter", "VidmodeDecrease", "VidmodeIncrease", "ToggleFullScreen",
  "DecreaseOverscan", "IncreaseOverScan", "DecreaseFormat",
  "IncreaseFormat", "TogglePalette", "SoundToggle", "VolumeDecrease",
  "VolumeIncrease", "HandleMouseControl", "ToggleGrabMouse",
  "ToggleSAPortOrder", "ReloadConsole", "Fry", "ToggleContSnapshots",
  "ToggleContSnapshotsFrame", "ToggleTimeMachine", "TimeMachineMode",
  "RewindPause", "Rewind1Menu", "Rewind10Menu", "RewindAllMenu",
  "UnwindPause", "Unwind1Menu", "Unwind10Menu", "UnwindAllMenu",
  "SaveAllStates", "LoadAllStates", "Combo1", "Combo2", "Combo3", "Combo4",
  "Combo5", "Combo6", "Combo7", "Combo8", "Combo9", "Combo10", "Combo11",
  "Combo12", "Combo13", "Combo14", "Combo15", "Combo16" >>

EMUL_ACTIONLIST_SIZE == Len(ourEmulActionList)

(* EventHandler::ourMenuActionList: the event of every entry, in order.    *)

ourMenuActionList == <<
  "UIUp", "UIDown", "UILeft", "UIRight", "UIHome", "UIEnd", "UIPgUp",
  "UIPgDown", "UIOK", "UICancel", "UISelect", "UINavPrev", "UINavNext",
  "UITabPrev", "UITabNext", "UIPrevDir", "ToggleFullScreen", "Quit" >>

MENU_ACTIONLIST_SIZE == Len(ourMenuActionList)

\* the events that only the menu list names
UIEvents ==
  SelectSeq(ourMenuActionList,
            LAMBDA n : \A i \in 1 .. EMUL_ACTIONLIST_SIZE : ourEmulActionList[i] # n)

(* Event::Type.  NoType is 0; the other enumerators follow.                *)

\* the events of the mouse, which no action list names
MouseEvents ==
  << "MouseAxisXValue", "MouseAxisYValue", "MouseButtonLeftValue",
     "MouseButtonRightValue" >>

EventTypes == <<"NoType">> \o ourEmulActionList \o UIEvents \o MouseEvents

EventIds == 0 .. (Len(EventTypes) - 1)

\* the enumerator's name of an Event::Type value
EventName(e) == IF e \in EventIds THEN EventTypes[e + 1] ELSE "Invalid"

EventId ==
  [name \in { EventTypes[i] : i \in 1 .. Len(EventTypes) } |->
     (CHOOSE i \in 1 .. Len(EventTypes) : EventTypes[i] = name) - 1]

\* the Event::Type value of an enumerator
Ev(name) == EventId[name]

NoType == Ev("NoType")

\* the actions the binding tables are exercised with
BindEvents == { Ev("JoystickZeroUp"), Ev("JoystickZeroFire") }

----------------------------------------------------------------------------
(* EventMode *)

kEmulationMode == 0
kMenuMode == 1
Modes == { kEmulationMode, kMenuMode }

----------------------------------------------------------------------------
(* StellaMod: a modifier mask is the set of its bits.  Every modifier has  *)
(* a left and a right bit; KBDM_SHIFT etc. are the two-bit group masks.    *)

KBDM_SHIFT == { "LSHIFT", "RSHIFT" }
KBDM_CTRL  == { "LCTRL", "RCTRL" }
KBDM_ALT   == { "LALT", "RALT" }
KBDM_GUI   == { "LGUI", "RGUI" }
KBDM_NONE  == {}

ModGroups == { KBDM_SHIFT, KBDM_CTRL, KBDM_ALT, KBDM_GUI }
ModBits == UNION ModGroups \cup { "NUM" }

\* numeric value of a mask bit, as written to a mapping string
ModBitValue(b) ==
  CASE b = "LSHIFT" -> 1    [] b = "RSHIFT" -> 2
    [] b = "LCTRL"  -> 64   [] b = "RCTRL"  -> 128
    [] b = "LALT"   -> 256  [] b = "RALT"   -> 512
    [] b = "LGUI"   -> 1024 [] b = "RGUI"   -> 2048
    [] b = "NUM"    -> 4096

RECURSIVE SumBits(_)
SumBits(S) == IF S = {} THEN 0
              ELSE LET b == CHOOSE x \in S : TRUE
                   IN ModBitValue(b) + SumBits(S \ {b})

\* int(mod)
ModToInt(mod) == SumBits(mod)

\* StellaMod(n)
IntToMod(n) == { b \in ModBits : (n \div ModBitValue(b)) % 2 = 1 }

----------------------------------------------------------------------------
(* KeyMap::Mapping *)

Mapping(mode, key, mod) == [mode |-> mode, key |-> key, mod |-> mod]

\* one conjunct of operator==:
\*   ((mod | other.mod) & MASK) ? (mod & other.mod & MASK) : true
ModMatch(mod, other, MASK) ==
  IF ((mod \cup other) \cap MASK) # {}
    THEN (mod \cap other \cap MASK) # {}
    ELSE TRUE

\* a plausible slip: the key codes are compared with != instead of ==
MappingEqKeyInverted(a, b) ==
  /\ a.key # b.key
  /\ a.mode = b.mode
  /\ \A G \in ModGroups : ((a.mod \cup b.mod) \cap G) # {} => (a.mod \cap b.mod \cap G) # {}

\* a plausible slip: the masks are compared bit for bit
MappingEqExact(a, b) ==
  /\ a.key = b.key
  /\ a.mode = b.mode
  /\ \A G \in ModGroups : (a.mod \cap G) = (b.mod \cap G)

\* KeyMap::Mapping::operator==
MappingEq(a, b) ==
  /\ a.key = b.key
  /\ a.mode = b.mode
  /\ ModMatch(a.mod, b.mod, KBDM_SHIFT)
  /\ ModMatch(a.mod, b.mod, KBDM_CTRL)
  /\ ModMatch(a.mod, b.mod, KBDM_ALT)
  /\ ModMatch(a.mod, b.mod, KBDM_GUI)

Bit(c) == IF c THEN 1 ELSE 0

\* a plausible slip: the hash is taken over the modifier bits themselves
KeyHashRawMod(m) == m.mode + (m.key * 7) + ModToInt(m.mod) * 2047

\* KeyMap::KeyHash (std::hash<uInt64> taken as the identity)
KeyHash(m) ==
  m.mode + (m.key * 7)
  + ( Bit((m.mod \cap KBDM_SHIFT) # {})
    + 2 * Bit((m.mod \cap KBDM_ALT) # {})
    + 4 * Bit((m.mod \cap KBDM_GUI) # {})
    + 8 * Bit((m.mod \cap KBDM_CTRL) # {}) ) * 2047


----------------------------------------------------------------------------
(* KeyMap: std::unordered_map<Mapping, Event::Type, KeyHash> myMap.        *)
(* The table is the sequence of its nodes [m |-> Mapping, e |-> event] in  *)
(* the order a lookup walks them; a lookup returns the first node of the   *)
(* probed hash value whose key compares equal.                             *)

Node(m, e) == [m |-> m, e |-> e]

RemoveAt(s, i) == SubSeq(s, 1, i - 1) \o SubSeq(s, i + 1, Len(s))

InsertAt(s, pos, x) == SubSeq(s, 1, pos - 1) \o <<x>> \o SubSeq(s, pos, Len(s))

\* a plausible slip: the lookup compares mode and key code only
KeyFindByKeyCode(map, k) ==
  LET hit(i) == map[i].m.key = k.key /\ map[i].m.mode = k.mode
  IN IF \E i \in 1 .. Len(map) : hit(i)
       THEN CHOOSE i \in 1 .. Len(map) : hit(i) /\ \A j \in 1 .. (i - 1) : ~hit(j)
       ELSE 0

\* myMap.find(k): index of the node found, 0 for myMap.end()
KeyFind(map, k) ==
  LET hit(i) == KeyHash(map[i].m) = KeyHash(k) /\ MappingEq(k, map[i].m)
  IN IF \E i \in 1 .. Len(map) : hit(i)
       THEN CHOOSE i \in 1 .. Len(map) : hit(i) /\ \A j \in 1 .. (i - 1) : ~hit(j)
       ELSE 0

\* KeyMap::convertMod, as used by a lookup: with the use-modifiers flag off
\* the modifiers of the incoming descriptor are dropped
ConvertMod(enabled, mapping) ==
  IF enabled THEN mapping ELSE [mapping EXCEPT !.mod = KBDM_NONE]

\* KeyMap::add: myMap[mapping] = event; a new node goes to chain position pos
KeyAdd(map, event, mapping, pos) ==
  LET i == KeyFind(map, mapping)
  IN IF i # 0 THEN [map EXCEPT ![i].e = event]
              ELSE InsertAt(map, pos, Node(mapping, event))

\* KeyMap::erase: myMap.erase(mapping)
KeyErase(map, mapping) ==
  LET i == KeyFind(map, mapping)
  IN IF i # 0 THEN RemoveAt(map, i) ELSE map

\* KeyMap::get
KeyGet(map, enabled, mapping) ==
  LET i == KeyFind(map, ConvertMod(enabled, mapping))
  IN IF i # 0 THEN map[i].e ELSE NoType

\* KeyMap::check
KeyCheck(map, enabled, mapping) == KeyFind(map, ConvertMod(enabled, mapping)) # 0

\* KeyMap::eraseMode
KeyEraseMode(map, mode) == SelectSeq(map, LAMBDA n : n.m.mode # mode)

\* KeyMap::eraseEvent
KeyEraseEvent(map, event, mode) ==
  SelectSeq(map, LAMBDA n : ~(n.e = event /\ n.m.mode = mode))

\* KeyMap::getEventMapping, as a set
KeyGetEventMapping(map, event, mode) ==
  { map[i].m : i \in { j \in 1 .. Len(map) : map[j].e = event /\ map[j].m.mode = mode } }

\* the (descriptor, action) bindings a table holds for a mode, as a set
KeyBindings(map, mode) ==
  { map[i] : i \in { j \in 1 .. Len(map) : map[j].m.mode = mode } }

----------------------------------------------------------------------------
(* JoyMap *)

JOY_CTRL_NONE == -1

\* JoyAxis, JoyDir, JoyHat enumerators
JoyAxis_X == 0
JoyAxis_NONE == JOY_CTRL_NONE
JoyDir_NEG == -1
JoyDir_POS == 1
JoyDir_NONE == 0
JoyHat_UP == 0
JoyHat_LEFT == 2
JoyHat_CENTER == 4

\* JoyMap::JoyMapping, the six-field constructor
JoyMapping(mode, button, axis, adir, hat, hdir) ==
  [mode |-> mode, button |-> button, axis |-> axis, adir |-> adir,
   hat |-> hat, hdir |-> hdir]

\* the (mode, button, axis, adir) constructor: no hat
JoyMappingAxis(mode, button, axis, adir) ==
  JoyMapping(mode, button, axis, adir, JOY_CTRL_NONE, JoyHat_CENTER)

\* the (mode, button, hat, hdir) constructor: no axis
JoyMappingHat(mode, button, hat, hdir) ==
  JoyMapping(mode, button, JoyAxis_NONE, JoyDir_NONE, hat, hdir)

\* JoyMap::JoyMapping::operator==
JoyMappingEq(a, b) ==
  /\ a.mode = b.mode
  /\ a.button = b.button
  /\ a.axis = b.axis
  /\ a.adir = b.adir
  /\ a.hat = b.hat
  /\ a.hdir = b.hdir

\* myMap.find(k); descriptors that compare equal agree in every field JoyHash
\* reads, so the node found is the first one that compares equal
JoyFind(map, k) ==
  LET hit(i) == JoyMappingEq(k, map[i].m)
  IN IF \E i \in 1 .. Len(map) : hit(i)
       THEN CHOOSE i \in 1 .. Len(map) : hit(i) /\ \A j \in 1 .. (i - 1) : ~hit(j)
       ELSE 0

\* JoyMap::add: myMap[mapping] = event
JoyAdd(map, event, mapping, pos) ==
  LET i == JoyFind(map, mapping)
  IN IF i # 0 THEN [map EXCEPT ![i].e = event]
              ELSE InsertAt(map, pos, Node(mapping, event))

\* JoyMap::erase
JoyErase(map, mapping) ==
  LET i == JoyFind(map, mapping)
  IN IF i # 0 THEN RemoveAt(map, i) ELSE map

\* JoyMap::get
JoyGet(map, mapping) ==
  LET i == JoyFind(map, mapping)
  IN IF i # 0 THEN map[i].e ELSE NoType

\* JoyMap::eraseMode
JoyEraseMode(map, mode) == SelectSeq(map, LAMBDA n : n.m.mode # mode)

\* JoyMap::eraseEvent
JoyEraseEvent(map, event, mode) ==
  SelectSeq(map, LAMBDA n : ~(n.e = event /\ n.m.mode = mode))

\* the (descriptor, action) bindings a table holds for a mode, as a set
JoyBindings(map, mode) ==
  { map[i] : i \in { j \in 1 .. Len(map) : map[j].m.mode = mode } }

----------------------------------------------------------------------------
(* Inputs of the binding-table operations *)

Keys == 1 .. MaxKey

\* modifier masks of the descriptors the tables are exercised with
TableMods == { KBDM_NONE, {"LSHIFT"}, {"RSHIFT"}, KBDM_SHIFT }

KeyDescs == { Mapping(mode, key, mod) : mode \in Modes, key \in Keys, mod \in TableMods }

Buttons == 0 .. MaxButton

JoyDescs ==
  { JoyMappingAxis(mode, b, JoyAxis_NONE, JoyDir_NONE) : mode \in Modes, b \in Buttons }
  \cup { JoyMappingAxis(mode, JOY_CTRL_NONE, JoyAxis_X, d) :
           mode \in Modes, d \in { JoyDir_NEG, JoyDir_POS } }
  \cup { JoyMappingHat(mode, JOY_CTRL_NONE, 0, h) :
           mode \in Modes, h \in { JoyHat_UP, JoyHat_LEFT } }

NoOp == [name |-> "none", d |-> <<>>, a |-> 0, n |-> 0]

----------------------------------------------------------------------------
(* Mapping strings.  A string is the sequence of the numbers it holds; the *)
(* delimiters between them carry no information.                           *)

RECURSIVE Flatten(_)
Flatten(ss) == IF ss = <<>> THEN <<>> ELSE Head(ss) \o Flatten(Tail(ss))

NodesOfMode(map, mode) == SelectSeq(map, LAMBDA n : n.m.mode = mode)

\* a plausible slip: the modifier mask is written as 0
KeySaveMappingNoMod(map, mode) ==
  LET ns == NodesOfMode(map, mode)
  IN Flatten([i \in 1 .. Len(ns) |-> <<ns[i].e, ns[i].m.key, 0>>])

\* KeyMap::saveMapping: event:key,mod for every node of the mode
KeySaveMapping(map, mode) ==
  LET ns == NodesOfMode(map, mode)
  IN Flatten([i \in 1 .. Len(ns) |-> <<ns[i].e, ns[i].m.key, ModToInt(ns[i].m.mod)>>])

\* KeyMap::loadMapping: add() for every complete event:key,mod record
RECURSIVE KeyLoadMapping(_, _, _)
KeyLoadMapping(map, list, mode) ==
  IF Len(list) < 3 THEN map
  ELSE KeyLoadMapping(
         KeyAdd(map, list[1], Mapping(mode, list[2], IntToMod(list[3])), 1),
         SubSeq(list, 4, Len(list)), mode)

\* JoyMap::saveMapping: event:button,axis,adir,hat,hdir for every node of the mode
JoySaveMapping(map, mode) ==
  LET ns == NodesOfMode(map, mode)
  IN Flatten([i \in 1 .. Len(ns) |->
       <<ns[i].e, ns[i].m.button, ns[i].m.axis, ns[i].m.adir, ns[i].m.hat, ns[i].m.hdir>>])

\* JoyMap::loadMapping
RECURSIVE JoyLoadMapping(_, _, _)
JoyLoadMapping(map, list, mode) ==
  IF Len(list) < 6 THEN map
  ELSE JoyLoadMapping(
         JoyAdd(map, list[1],
                JoyMapping(mode, list[2], list[3], list[4], list[5], list[6]), 1),
         SubSeq(list, 7, Len(list)), mode)

----------------------------------------------------------------------------
(* The binding-table operations as steps of the program *)

\* n: the number of nodes the table held before the operation
Op(name, d, a, n) == [name |-> name, d |-> d, a |-> a, n |-> n]

KeyAddStep(a, d, pos) ==
  /\ kind = "key"
  /\ pos \in 1 .. (Len(keyMap) + 1)
  /\ Len(KeyAdd(keyMap, a, d, pos)) <= MaxEntries
  /\ keyMap' = KeyAdd(keyMap, a, d, pos)
  /\ lastOp' = Op("add", d, a, Len(keyMap))
  /\ UNCHANGED <<kind, myModEnabled, joyMap, saved, ehVars, eqVars, stickVars, detVars, dcVars>>

KeyEraseStep(d) ==
  /\ kind = "key"
  /\ keyMap' = KeyErase(keyMap, d)
  /\ lastOp' = Op("erase", d, NoType, Len(keyMap))
  /\ UNCHANGED <<kind, myModEnabled, joyMap, saved, ehVars, eqVars, stickVars, detVars, dcVars>>

KeyEraseEventStep(a, mode) ==
  /\ kind = "key"
  /\ keyMap' = KeyEraseEvent(keyMap, a, mode)
  /\ lastOp' = Op("eraseEvent", Mapping(mode, 0, KBDM_NONE), a, Len(keyMap))
  /\ UNCHANGED <<kind, myModEnabled, joyMap, saved, ehVars, eqVars, stickVars, detVars, dcVars>>

KeyEraseModeStep(mode) ==
  /\ kind = "key"
  /\ keyMap' = KeyEraseMode(keyMap, mode)
  /\ lastOp' = Op("eraseMode", Mapping(mode, 0, KBDM_NONE), NoType, Len(keyMap))
  /\ UNCHANGED <<kind, myModEnabled, joyMap, saved, ehVars, eqVars, stickVars, detVars, dcVars>>

\* enableMod() = b
EnableModStep(b) ==
  /\ kind = "key"
  /\ myModEnabled # b
  /\ myModEnabled' = b
  /\ lastOp' = NoOp
  /\ UNCHANGED <<kind, keyMap, joyMap, saved, ehVars, eqVars, stickVars, detVars, dcVars>>

JoyAddStep(a, d, pos) ==
  /\ kind = "joy"
  /\ pos \in 1 .. (Len(joyMap) + 1)
  /\ Len(JoyAdd(joyMap, a, d, pos)) <= MaxEntries
  /\ joyMap' = JoyAdd(joyMap, a, d, pos)
  /\ lastOp' = Op("add", d, a, Len(joyMap))
  /\ UNCHANGED <<kind, myModEnabled, keyMap, saved, ehVars, eqVars, stickVars, detVars, dcVars>>

JoyEraseStep(d) ==
  /\ kind = "joy"
  /\ joyMap' = JoyErase(joyMap, d)
  /\ lastOp' = Op("erase", d, NoType, Len(joyMap))
  /\ UNCHANGED <<kind, myModEnabled, keyMap, saved, ehVars, eqVars, stickVars, detVars, dcVars>>

JoyEraseEventStep(a, mode) ==
  /\ kind = "joy"
  /\ joyMap' = JoyEraseEvent(joyMap, a, mode)
  /\ lastOp' = Op("eraseEvent", JoyMappingAxis(mode, 0, JoyAxis_NONE, JoyDir_NONE), a, Len(joyMap))
  /\ UNCHANGED <<kind, myModEnabled, keyMap, saved, ehVars, eqVars, stickVars, detVars, dcVars>>

JoyEraseModeStep(mode) ==
  /\ kind = "joy"
  /\ joyMap' = JoyEraseMode(joyMap, mode)
  /\ lastOp' = Op("eraseMode", JoyMappingAxis(mode, 0, JoyAxis_NONE, JoyDir_NONE), NoType, Len(joyMap))
  /\ UNCHANGED <<kind, myModEnabled, keyMap, saved, ehVars, eqVars, stickVars, detVars, dcVars>>

----------------------------------------------------------------------------
(* Properties of the binding tables *)

\* what get(d) returns in the current state, for the table being exercised
GetNow(d) ==
  IF kind = "key" THEN KeyGet(keyMap, myModEnabled, d) ELSE JoyGet(joyMap, d)

C2_EraseThenGet ==
  lastOp.name = "erase" => GetNow(lastOp.d) = NoType

NoTwoEqual(map, Eq(_, _)) ==
  \A i, j \in 1 .. Len(map) : i # j => ~Eq(map[i].m, map[j].m)

\* the node a table-level lookup of d finds holds action a
BoundTo(d, a) ==
  IF kind = "key"
    THEN KeyFind(keyMap, d) # 0 /\ keyMap[KeyFind(keyMap, d)].e = a
    ELSE JoyFind(joyMap, d) # 0 /\ joyMap[JoyFind(joyMap, d)].e = a

C5_ModifierToggle ==
  \A i \in 1 .. Len(keyMap) :
    ( /\ keyMap[i].m.mod = KBDM_NONE
      /\ \A j \in 1 .. Len(keyMap) :
           j # i => ~(keyMap[j].m.key = keyMap[i].m.key /\ keyMap[j].m.mode = keyMap[i].m.mode) )
    => \A shift \in { {"LSHIFT"}, {"RSHIFT"}, KBDM_SHIFT } :
         LET press == Mapping(keyMap[i].m.mode, keyMap[i].m.key, shift)
         IN IF myModEnabled
              THEN KeyGet(keyMap, myModEnabled, press) = NoType
              ELSE KeyGet(keyMap, myModEnabled, press) = keyMap[i].e

\* a binding without modifiers has just been added, it is the only one for its
\* key, and the flag is off: the Shift press resolves to it
C5_WitnessDisabled ==
  /\ kind = "key"
  /\ lastOp.name = "add"
  /\ lastOp.d.mod = KBDM_NONE
  /\ Len(keyMap) = 1
  /\ ~myModEnabled
  /\ KeyGet(keyMap, myModEnabled, Mapping(lastOp.d.mode, lastOp.d.key, {"LSHIFT"})) = lastOp.a

----------------------------------------------------------------------------
(* Character strings: a string is the sequence of its characters.          *)

Digits == <<"0", "1", "2", "3", "4", "5", "6", "7", "8", "9">>

IsDigit(c) == \E i \in 1 .. 10 : Digits[i] = c

DigitVal(c) == (CHOOSE i \in 1 .. 10 : Digits[i] = c) - 1

\* replace(s.begin(), s.end(), a, b)
Replace(str, a, b) == [i \in 1 .. Len(str) |-> IF str[i] = a THEN b ELSE str[i]]

\* the whitespace-separated words operator>> extracts from a stream, in order
\* of str from position i on, after the characters cur already read
Words(str, i, cur) ==
  LET rest == cur \o SubSeq(str, i, Len(str))
      n == Len(rest)
      starts == { s \in 1 .. n : rest[s] # " " /\ (s = 1 \/ rest[s - 1] = " ") }
      start(k) == CHOOSE s \in starts : Cardinality({ t \in starts : t <= s }) = k
      end(s) == CHOOSE t \in s .. n :
                  /\ \A x \in s .. t : rest[x] # " "
                  /\ (t = n \/ rest[t + 1] = " ")
  IN [k \in 1 .. Cardinality(starts) |-> SubSeq(rest, start(k), end(start(k)))]

RECURSIVE AtoiDigits(_, _, _)
AtoiDigits(str, i, acc) ==
  IF i <= Len(str) /\ IsDigit(str[i])
    THEN AtoiDigits(str, i + 1, 10 * acc + DigitVal(str[i]))
    ELSE acc

\* atoi(str.c_str()) for a word without whitespace: optional sign, then the
\* leading digits; 0 when there are none
Atoi(str) ==
  IF str # <<>> /\ str[1] = "-" THEN 0 - AtoiDigits(str, 2, 0)
  ELSE IF str # <<>> /\ str[1] = "+" THEN AtoiDigits(str, 2, 0)
  ELSE AtoiDigits(str, 1, 0)

RECURSIVE NatToStr(_)
NatToStr(n) ==
  IF n < 10 THEN <<Digits[n + 1]>>
  ELSE NatToStr(n \div 10) \o <<Digits[(n % 10) + 1]>>

\* ostream << int
IntToStr(n) == IF n < 0 THEN <<"-">> \o NatToStr(0 - n) ELSE NatToStr(n)

----------------------------------------------------------------------------
(* The combo table *)

COMBO_SIZE == 16
EVENTS_PER_COMBO == 8

\* Event::VERSION, the version of the event table
Event_VERSION == 3

Combo1 == Ev("Combo1")
Combo16 == Ev("Combo16")

IsCombo(event) == event >= Combo1 /\ event <= Combo16

\* myComboTable[i][j] is EmptyComboTable[i + 1][j + 1]
EmptyComboTable ==
  [i \in 1 .. COMBO_SIZE |-> [j \in 1 .. EVENTS_PER_COMBO |-> NoType]]

\* EventHandler::saveComboMapping: the string stored as setting "combomap"
RECURSIVE JoinInts(_, _)
JoinInts(row, j) ==
  IF j > Len(row) THEN <<>>
  ELSE (IF j = 1 THEN <<>> ELSE <<",">>) \o IntToStr(row[j]) \o JoinInts(row, j + 1)

RECURSIVE SaveRows(_, _)
SaveRows(table, i) ==
  IF i > Len(table) THEN <<>>
  ELSE <<":">> \o JoinInts(table[i], 1) \o SaveRows(table, i + 1)

\* a plausible slip: the combo count is not prepended
saveComboMappingNoCount(table) == SaveRows(table, 1)

saveComboMapping(table) == IntToStr(COMBO_SIZE) \o SaveRows(table, 1)

\* the inner loop of setComboMap: the events of one combo
RECURSIVE FillEvents(_, _, _)
FillEvents(row, keys, eventcount) ==
  IF keys = <<>> \/ eventcount >= EVENTS_PER_COMBO THEN row
  ELSE FillEvents([row EXCEPT ![eventcount + 1] = Atoi(Head(keys))],
                  Tail(keys), eventcount + 1)

\* the outer loop of setComboMap: one word per combo
RECURSIVE FillCombos(_, _, _)
FillCombos(table, keys, combocount) ==
  IF keys = <<>> \/ combocount >= COMBO_SIZE THEN table
  ELSE FillCombos(
         [table EXCEPT ![combocount + 1] =
            FillEvents(@, Words(Replace(Head(keys), ",", " "), 1, <<>>), 0)],
         Tail(keys), combocount + 1)

\* a plausible slip: the combo count is read and not compared
setComboMapNoCountCheck(table, list, version) ==
  LET keys == Words(Replace(list, ":", " "), 1, <<>>)
  IN IF version # Event_VERSION
       THEN EmptyComboTable
       ELSE IF keys # <<>> THEN FillCombos(table, Tail(keys), 0) ELSE table

\* a plausible slip: the event-table version is not compared
setComboMapNoVersionCheck(table, list, version) ==
  LET keys == Words(Replace(list, ":", " "), 1, <<>>)
  IN IF keys # <<>> /\ Atoi(Head(keys)) = COMBO_SIZE
       THEN FillCombos(table, Tail(keys), 0)
       ELSE EmptyComboTable

\* EventHandler::setComboMap, the table it leaves: list is setting "combomap",
\* version is setting "event_ver".  A stream over any string is good() until
\* something is read from it.
setComboMap(table, list, version) ==
  LET keys == Words(Replace(list, ":", " "), 1, <<>>)
  IN IF version # Event_VERSION
       THEN EmptyComboTable
       ELSE IF keys # <<>> /\ Atoi(Head(keys)) = COMBO_SIZE
              THEN FillCombos(table, Tail(keys), 0)
              ELSE EmptyComboTable

\* EventHandler::setComboListForEvent, the table it leaves: events is the
\* list of eight decimal strings
setComboListForEvent(table, event, events) ==
  IF IsCombo(event)
    THEN [table EXCEPT ![event - Combo1 + 1] =
            [i \in 1 .. 8 |->
               LET idx == Atoi(events[i])
               IN IF idx >= 0 /\ idx < EMUL_ACTIONLIST_SIZE
                    THEN Ev(ourEmulActionList[idx + 1])
                    ELSE NoType]]
    ELSE table

----------------------------------------------------------------------------
(* EventHandler::handleEvent *)

\* deepest nesting of handleEvent calls followed before the stack is taken
\* to be exhausted
MaxDepth == 4

DirectionNames ==
  { "JoystickZeroUp", "JoystickZeroDown", "JoystickZeroLeft", "JoystickZeroRight",
    "JoystickOneUp", "JoystickOneDown", "JoystickOneLeft", "JoystickOneRight" }

\* the direction cleared by a press of the given one (lines 344-382)
Opposite(name) ==
  CASE name = "JoystickZeroUp"    -> "JoystickZeroDown"
    [] name = "JoystickZeroDown"  -> "JoystickZeroUp"
    [] name = "JoystickZeroLeft"  -> "JoystickZeroRight"
    [] name = "JoystickZeroRight" -> "JoystickZeroLeft"
    [] name = "JoystickOneUp"     -> "JoystickOneDown"
    [] name = "JoystickOneDown"   -> "JoystickOneUp"
    [] name = "JoystickOneLeft"   -> "JoystickOneRight"
    [] name = "JoystickOneRight"  -> "JoystickOneLeft"

\* cases of the switch (lines 405-644 and 682-684) that only call the frame
\* buffer, the console, the state manager and the snapshot writer, and return
SubsystemCases ==
  { "VidmodeDecrease", "VidmodeIncrease",
    "ToggleFullScreen", "DecreaseOverscan", "IncreaseOverScan",
    "VidmodeStd", "VidmodeRGB", "VidmodeSVideo", "VidModeComposite",
    "VidModeBad", "VidModeCustom", "ScanlinesDecrease",
    "ScanlinesIncrease", "PreviousAttribute", "NextAttribute",
    "DecreaseAttribute", "IncreaseAttribute", "DecreasePhosphor",
    "IncreasePhosphor", "TogglePhosphor", "ToggleColorLoss",
    "TogglePalette", "ToggleJitter", "ToggleFrameStats",
    "ToggleTimeMachine", "ToggleContSnapshots",
    "ToggleContSnapshotsFrame", "HandleMouseControl", "ToggleSAPortOrder",
    "DecreaseFormat", "IncreaseFormat", "ToggleGrabMouse",
    "ToggleP0Collision", "ToggleP0Bit", "ToggleP1Collision",
    "ToggleP1Bit", "ToggleM0Collision", "ToggleM0Bit",
    "ToggleM1Collision", "ToggleM1Bit", "ToggleBLCollision",
    "ToggleBLBit", "TogglePFCollision", "TogglePFBit",
    "ToggleFixedColors", "ToggleCollisions", "ToggleBits", "SaveState",
    "SaveAllStates", "ChangeState", "ToggleAutoSlot", "LoadState",
    "LoadAllStates", "TakeSnapshot" }

\* lines 658-680: the cases that enter the time machine on a press
WindMenuCases ==
  { "Rewind1Menu", "Rewind10Menu", "RewindAllMenu",
    "Unwind1Menu", "Unwind10Menu", "UnwindAllMenu" }

\* cases of the switch (lines 389-391 and 728-736) whose handling this model
\* does not follow; no step of the model dispatches them
CasesNotFollowed == { "ReloadConsole", "Quit" }

\* lines 767-890: the cases of the console switches
ConsoleSwitchCases ==
  { "ConsoleColor", "ConsoleBlackWhite", "ConsoleColorToggle",
    "Console7800Pause", "ConsoleLeftDiffA", "ConsoleLeftDiffB",
    "ConsoleLeftDiffToggle", "ConsoleRightDiffA", "ConsoleRightDiffB",
    "ConsoleRightDiffToggle" }

\* myEvent.set(type, value); a type outside the table is an out-of-bounds write
EventSet(st, type, value) ==
  IF type \in EventIds
    THEN [st EXCEPT !.ev = [@ EXCEPT ![type] = value]]
    ELSE [st EXCEPT !.fault = "oob"]

\* a plausible slip: a repeated event is stored as well
PassToCoreRepeated(st, event, value, repeated) == EventSet(st, event, value)

\* lines 899-901: pass the event to the emulation core
PassToCore(st, event, value, repeated) ==
  IF ~repeated THEN EventSet(st, event, value) ELSE st

\* a plausible slip: the opposite direction is never cleared
ClearOppositeNever(st, name, pressed) == st

\* lines 345-346 and alike: a press clears the opposite direction unless all
\* directions are allowed
ClearOpposite(st, name, pressed) ==
  IF ~st.allow /\ pressed THEN EventSet(st, Ev(Opposite(name)), 0) ELSE st

\* a plausible slip: a switch is set without releasing the other of its pair
SwitchPairOnly(st, on, off) == EventSet(st, Ev(on), 1)

\* one switch of a pair is set and the other released
SwitchPair(st, on, off) == EventSet(EventSet(st, Ev(on), 1), Ev(off), 0)

\* lines 767-890: a press that is not a repeat sets the latches of a pair;
\* the toggles read the position from Switches, st.env.sw, and the messages
\* and Switches::update() are outside the model
ConsoleSwitch(st, name, pressed, repeated) ==
  IF ~(pressed /\ ~repeated) THEN st
  ELSE CASE name = "ConsoleColor" -> SwitchPair(st, "ConsoleColor", "ConsoleBlackWhite")
         [] name = "ConsoleBlackWhite" -> SwitchPair(st, "ConsoleBlackWhite", "ConsoleColor")
         [] name = "ConsoleColorToggle" ->
              IF st.env.sw THEN SwitchPair(st, "ConsoleBlackWhite", "ConsoleColor")
              ELSE SwitchPair(st, "ConsoleColor", "ConsoleBlackWhite")
         [] name = "Console7800Pause" ->
              EventSet(EventSet(st, Ev("ConsoleBlackWhite"), 0), Ev("ConsoleColor"), 0)
         [] name = "ConsoleLeftDiffA" -> SwitchPair(st, "ConsoleLeftDiffA", "ConsoleLeftDiffB")
         [] name = "ConsoleLeftDiffB" -> SwitchPair(st, "ConsoleLeftDiffB", "ConsoleLeftDiffA")
         [] name = "ConsoleLeftDiffToggle" ->
              IF st.env.sw THEN SwitchPair(st, "ConsoleLeftDiffB", "ConsoleLeftDiffA")
              ELSE SwitchPair(st, "ConsoleLeftDiffA", "ConsoleLeftDiffB")
         [] name = "ConsoleRightDiffA" -> SwitchPair(st, "ConsoleRightDiffA", "ConsoleRightDiffB")
         [] name = "ConsoleRightDiffB" -> SwitchPair(st, "ConsoleRightDiffB", "ConsoleRightDiffA")
         [] name = "ConsoleRightDiffToggle" ->
              IF st.env.sw THEN SwitchPair(st, "ConsoleRightDiffB", "ConsoleRightDiffA")
              ELSE SwitchPair(st, "ConsoleRightDiffA", "ConsoleRightDiffB")

Call(event, value, repeated, depth) ==
  [event |-> event, value |-> value, repeated |-> repeated, depth |-> depth]

----------------------------------------------------------------------------
(* The dispatcher modes *)

\* enum class EventHandlerState
EventHandlerState ==
  { "EMULATION", "TIMEMACHINE", "PAUSE", "LAUNCHER", "OPTIONSMENU", "CMDMENU",
    "DEBUGGER", "NONE" }

\* the events whose value is not zero
Latched(ev) == { e \in EventIds : ev[e] # 0 }

\* Event::clear(): every value becomes zero
EventClear(st) == [st EXCEPT !.ev = [e \in EventIds |-> 0]]

\* one setState call: the mode set, and the events still latched on return
Trans(state, latched) == [to |-> state, latched |-> latched]

Record(st) == [st EXCEPT !.trans = Append(@, Trans(st.state, Latched(st.ev)))]

\* lines 1499-1545, with GUI_SUPPORT and DEBUGGER_SUPPORT: the dialog that
\* becomes the overlay in a mode
Overlay(state) ==
  CASE state = "OPTIONSMENU" -> "menu"
    [] state = "CMDMENU" -> "commandMenu"
    [] state = "TIMEMACHINE" -> "timeMachine"
    [] state = "LAUNCHER" -> "launcher"
    [] state = "DEBUGGER" -> "debugger"
    [] OTHER -> "none"

\* lines 1491-1556: the mode, the overlay, the sound in EMULATION and PAUSE,
\* and the flag that suppresses the next mouse motion
SetMode(st, state) ==
  [st EXCEPT !.state = state,
             !.overlay = Overlay(state),
             !.mute = IF state = "EMULATION" THEN FALSE
                      ELSE IF state = "PAUSE" THEN TRUE ELSE @,
             !.skip = TRUE]

\* a plausible slip: the mode changes and the event values stay
setStateKeepEvents(st, state) == Record(SetMode(st, state))

\* a plausible slip: the overlay is not reset before the switch
setStateKeepOverlay(st, state) ==
  Record(EventClear([SetMode(st, state) EXCEPT
                       !.overlay = IF Overlay(state) = "none" THEN st.overlay
                                   ELSE Overlay(state)]))

\* setState(state), lines 1489-1561: the other subsystems told of the mode
\* are outside the model; the last statement clears the events
setState(st, state) == Record(EventClear(SetMode(st, state)))

\* a plausible slip: the sound is left as it is
enterMenuModeNoMute(st, state) == setState(st, state)

\* enterMenuMode(state), lines 1403-1410; the callers pass a mode that has an
\* overlay to restack
enterMenuMode(st, state) == [setState(st, state) EXCEPT !.mute = TRUE]

\* leaveMenuMode(), lines 1413-1419
leaveMenuMode(st) == [setState(st, "EMULATION") EXCEPT !.mute = FALSE]

\* enterTimeMachineMenuMode(numWinds, unwind), lines 1473-1486: the winds go
\* to the state manager and the time machine dialog
enterTimeMachineMenuMode(st) == enterMenuMode(st, "TIMEMACHINE")

\* enterDebugMode(), lines 1422-1453; st.env.fbOk tells whether the frame
\* buffer of the debugger could be created
enterDebugMode(st) ==
  IF st.state = "DEBUGGER" \/ ~st.env.hasConsole THEN st
  ELSE LET s1 == setState(st, "DEBUGGER")
       IN IF ~st.env.fbOk THEN setState(s1, "EMULATION")
          ELSE [s1 EXCEPT !.mute = TRUE]

\* leaveDebugMode(), lines 1456-1470
leaveDebugMode(st) ==
  IF st.state # "DEBUGGER" THEN st
  ELSE [setState(st, "EMULATION") EXCEPT !.mute = FALSE]

\* changeStateByEvent(type), lines 955-1012, with DEBUGGER_SUPPORT; the result
\* is the pair of the new state and the value returned
Handled(st, handled) == [st |-> st, handled |-> handled]

\* a plausible slip: the pause action only pauses, and is handled all the same
changeStateByEventPauseOnly(st, type) ==
  LET name == EventName(type)
      playing == st.state \in { "EMULATION", "PAUSE" }
  IN CASE name = "TogglePauseMode" ->
            IF playing THEN Handled(setState(st, "PAUSE"), TRUE)
            ELSE Handled(st, FALSE)
       [] name = "OptionsMenuMode" ->
            IF playing THEN Handled(enterMenuMode(st, "OPTIONSMENU"), TRUE)
            ELSE Handled(st, FALSE)
       [] name = "CmdMenuMode" ->
            IF playing THEN Handled(enterMenuMode(st, "CMDMENU"), TRUE)
            ELSE IF st.state = "CMDMENU" /\ ~st.env.minimal_ui
                   THEN Handled(leaveMenuMode(st), TRUE)
            ELSE Handled(st, FALSE)
       [] name = "TimeMachineMode" ->
            IF playing THEN Handled(enterTimeMachineMenuMode(st), TRUE)
            ELSE IF st.state = "TIMEMACHINE" THEN Handled(leaveMenuMode(st), TRUE)
            ELSE Handled(st, FALSE)
       [] name = "DebuggerMode" ->
            IF playing \/ st.state = "TIMEMACHINE" THEN Handled(enterDebugMode(st), TRUE)
            ELSE IF st.state = "DEBUGGER" /\ st.env.canExit
                   THEN Handled(leaveDebugMode(st), TRUE)
            ELSE Handled(st, FALSE)
       [] OTHER -> Handled(st, FALSE)

changeStateByEvent(st, type) ==
  LET name == EventName(type)
      playing == st.state \in { "EMULATION", "PAUSE" }
  IN CASE name = "TogglePauseMode" ->
            IF st.state = "EMULATION" THEN Handled(setState(st, "PAUSE"), TRUE)
            ELSE IF st.state = "PAUSE" THEN Handled(setState(st, "EMULATION"), TRUE)
            ELSE Handled(st, FALSE)
       [] name = "OptionsMenuMode" ->
            IF playing THEN Handled(enterMenuMode(st, "OPTIONSMENU"), TRUE)
            ELSE Handled(st, FALSE)
       [] name = "CmdMenuMode" ->
            IF playing THEN Handled(enterMenuMode(st, "CMDMENU"), TRUE)
            ELSE IF st.state = "CMDMENU" /\ ~st.env.minimal_ui
                   THEN Handled(leaveMenuMode(st), TRUE)
            ELSE Handled(st, FALSE)
       [] name = "TimeMachineMode" ->
            IF playing THEN Handled(enterTimeMachineMenuMode(st), TRUE)
            ELSE IF st.state = "TIMEMACHINE" THEN Handled(leaveMenuMode(st), TRUE)
            ELSE Handled(st, FALSE)
       [] name = "DebuggerMode" ->
            IF playing \/ st.state = "TIMEMACHINE" THEN Handled(enterDebugMode(st), TRUE)
            ELSE IF st.state = "DEBUGGER" /\ st.env.canExit
                   THEN Handled(leaveDebugMode(st), TRUE)
            ELSE Handled(st, FALSE)
       [] OTHER -> Handled(st, FALSE)

\* lines 686-726: ExitMode leaves the mode the dispatcher is in; leaving the
\* emulation goes through OSystem, which this model does not follow
ExitMode(st, pressed, repeated) ==
  CASE st.state = "PAUSE" ->
         IF pressed /\ ~repeated
           THEN changeStateByEvent(st, Ev("TogglePauseMode")).st ELSE st
    [] st.state = "CMDMENU" ->
         IF pressed /\ ~repeated
           THEN changeStateByEvent(st, Ev("CmdMenuMode")).st ELSE st
    [] st.state = "TIMEMACHINE" ->
         IF pressed /\ ~repeated
           THEN changeStateByEvent(st, Ev("TimeMachineMode")).st ELSE st
    [] st.state = "EMULATION" ->
         IF pressed /\ ~repeated THEN [st EXCEPT !.fault = "notfollowed"] ELSE st
    [] OTHER -> st

----------------------------------------------------------------------------
(* The dispatch *)

RECURSIVE handleEvent(_, _, _, _, _)
RECURSIVE ComboLoop(_, _, _, _, _, _)

\* lines 761-763, from iteration i on; a call nested deeper than MaxDepth
\* exhausts the stack, and nothing runs after a fault
ComboLoop(st, combo, i, pressed, repeated, depth) ==
  IF i >= EVENTS_PER_COMBO \/ st.fault # "none" THEN st
  ELSE IF st.table[combo + 1][i + 1] # NoType
         THEN IF depth + 1 > MaxDepth
                THEN [st EXCEPT !.fault = "stack"]
                ELSE ComboLoop(handleEvent(st, st.table[combo + 1][i + 1], Bit(pressed),
                                           repeated, depth + 1),
                               combo, i + 1, pressed, repeated, depth)
         ELSE ComboLoop(st, combo, i + 1, pressed, repeated, depth)

\* EventHandler::handleEvent(event, value, repeated), called at nesting depth
\* depth; st.log lists the calls made, in order
handleEvent(st, event, value, repeated, depth) ==
  LET pressed == value # 0
      name == EventName(event)
      st1 == [st EXCEPT !.log = Append(@, Call(event, value, repeated, depth))]
  IN CASE name \in DirectionNames ->
            PassToCore(ClearOpposite(st1, name, pressed), event, value, repeated)
       [] name = "Fry" ->
            IF ~repeated THEN [st1 EXCEPT !.fry = pressed] ELSE st1
       [] name \in { "VolumeDecrease", "VolumeIncrease", "SoundToggle" } ->
            st1   \* the sound device is outside the model
       [] name \in SubsystemCases ->
            st1
       [] name \in { "RewindPause", "UnwindPause" } ->
            IF st1.state = "EMULATION" THEN setState(st1, "PAUSE") ELSE st1
       [] name \in WindMenuCases ->
            IF pressed THEN enterTimeMachineMenuMode(st1) ELSE st1
       [] name = "ExitMode" ->
            ExitMode(st1, pressed, repeated)
       [] name = "StartPauseMode" ->
            IF pressed /\ ~repeated /\ st1.state = "EMULATION"
              THEN setState(st1, "PAUSE") ELSE st1
       [] name \in ConsoleSwitchCases ->
            ConsoleSwitch(st1, name, pressed, repeated)
       [] name \in CasesNotFollowed ->
            [st1 EXCEPT !.fault = "notfollowed"]
       [] IsCombo(event) ->
            ComboLoop(st1, event - Combo1, 0, pressed, repeated, depth)
       [] name = "NoType" ->
            st1
       [] OTHER ->
            PassToCore(st1, event, value, repeated)

----------------------------------------------------------------------------
(* The EventHandler operations as steps of the program *)

\* before: what the operation found, namely the value of the opposite
\* direction for a dispatched direction and the combo table for setComboMap
EhOp(name, event, value, repeated, list, version, before) ==
  [name |-> name, event |-> event, value |-> value, repeated |-> repeated,
   list |-> list, version |-> version, before |-> before]

NoEhOp == EhOp("none", NoType, 0, FALSE, <<>>, 0, 0)

\* what an operation reads outside the dispatcher: the setting "minimal_ui",
\* OSystem::hasConsole(), whether createFrameBuffer() succeeds,
\* Debugger::canExit(), and (sw) the position Switches reports to a toggle
Env(minui, hasConsole, fbOk, canExit) ==
  [minimal_ui |-> minui, hasConsole |-> hasConsole, fbOk |-> fbOk,
   canExit |-> canExit, sw |-> TRUE]

Envs == { Env(minimal_ui, h, f, c) : h \in BOOLEAN, f \in BOOLEAN, c \in BOOLEAN }

\* the dispatcher as an operation finds it
Entry(env) ==
  [ev |-> myEvent, fry |-> myFryingFlag, table |-> myComboTable,
   allow |-> myAllowAllDirectionsFlag, log |-> <<>>, fault |-> "none",
   state |-> myState, trans |-> <<>>, env |-> env,
   overlay |-> myOverlay, mute |-> muted, skip |-> mySkipMouseMotion]

\* handleEvent(event, value, repeated), called from outside the dispatcher;
\* of what is outside it reads the setting "minimal_ui" only
HandleEventStepIn(event, value, repeated, env) ==
  /\ ehFault = "none"
  /\ LET r == handleEvent(Entry(env), event, value, repeated, 1)
     IN /\ myEvent' = r.ev
        /\ myFryingFlag' = r.fry
        /\ ehLog' = r.log
        /\ ehFault' = r.fault
        /\ myState' = r.state
        /\ ehTrans' = r.trans
        /\ myOverlay' = r.overlay
        /\ muted' = r.mute
        /\ mySkipMouseMotion' = r.skip
        /\ ehMode' = myState
        /\ ehHandled' = FALSE
        /\ ehMotions' = IF r.trans # <<>> THEN 0 ELSE ehMotions
  /\ ehBefore' = myEvent
  /\ ehOp' = EhOp("handleEvent", event, value, repeated, <<>>, 0,
                  IF EventName(event) \in DirectionNames
                    THEN myEvent[Ev(Opposite(EventName(event)))] ELSE 0)
  /\ UNCHANGED <<myAllowAllDirectionsFlag, myComboTable, combomap, minimal_ui,
                 clearTimer, mapVars, eqVars, stickVars, detVars, dcVars>>

HandleEventStep(event, value, repeated) ==
  HandleEventStepIn(event, value, repeated, Env(minimal_ui, TRUE, TRUE, TRUE))

\* a dispatch while Switches reports the position sw
HandleSwitchEventStep(event, value, repeated, sw) ==
  HandleEventStepIn(event, value, repeated,
                    [Env(minimal_ui, TRUE, TRUE, TRUE) EXCEPT !.sw = sw])

\* a mode operation called from outside the dispatcher ends in r and
\* returns handled
ModeStepReturning(name, event, r, handled) ==
  /\ ehHandled' = handled
  /\ ehMotions' = IF r.trans # <<>> THEN 0 ELSE ehMotions
  /\ myEvent' = r.ev
  /\ myState' = r.state
  /\ ehTrans' = r.trans
  /\ myOverlay' = r.overlay
  /\ muted' = r.mute
  /\ mySkipMouseMotion' = r.skip
  /\ ehMode' = myState
  /\ ehBefore' = myEvent
  /\ ehLog' = <<>>
  /\ ehOp' = EhOp(name, event, 0, FALSE, <<>>, 0, myState)
  /\ UNCHANGED <<myAllowAllDirectionsFlag, myComboTable, combomap, ehFault,
                 minimal_ui, mapVars, eqVars, stickVars, detVars, dcVars>>

\* a mode operation that returns nothing
ModeStep(name, event, r) == ModeStepReturning(name, event, r, FALSE)

\* changeStateByEvent(type)
ChangeStateByEventStep(type, env) ==
  /\ ehFault = "none"
  /\ LET r == changeStateByEvent(Entry(env), type)
     IN ModeStepReturning("changeStateByEvent", type, r.st, r.handled)
  /\ UNCHANGED <<myFryingFlag, clearTimer>>

\* enterMenuMode(state)
EnterMenuModeStep(state) ==
  /\ ehFault = "none"
  /\ ModeStep("enterMenuMode", NoType, enterMenuMode(Entry(Env(minimal_ui, TRUE, TRUE, TRUE)), state))
  /\ UNCHANGED <<myFryingFlag, clearTimer>>

\* leaveMenuMode()
LeaveMenuModeStep ==
  /\ ehFault = "none"
  /\ ModeStep("leaveMenuMode", NoType, leaveMenuMode(Entry(Env(minimal_ui, TRUE, TRUE, TRUE))))
  /\ UNCHANGED <<myFryingFlag, clearTimer>>

\* enterTimeMachineMenuMode(numWinds, unwind)
EnterTimeMachineMenuModeStep ==
  /\ ehFault = "none"
  /\ ModeStep("enterTimeMachineMenuMode", NoType,
              enterTimeMachineMenuMode(Entry(Env(minimal_ui, TRUE, TRUE, TRUE))))
  /\ UNCHANGED <<myFryingFlag, clearTimer>>

\* enterDebugMode()
EnterDebugModeStep(env) ==
  /\ ehFault = "none"
  /\ ModeStep("enterDebugMode", NoType, enterDebugMode(Entry(env)))
  /\ UNCHANGED <<myFryingFlag, clearTimer>>

\* leaveDebugMode()
LeaveDebugModeStep ==
  /\ ehFault = "none"
  /\ ModeStep("leaveDebugMode", NoType, leaveDebugMode(Entry(Env(minimal_ui, TRUE, TRUE, TRUE))))
  /\ UNCHANGED <<myFryingFlag, clearTimer>>

\* the most mouse motions counted after a change of mode
MaxMotions == 3

\* an operation on the events from outside handleEvent ends in r
InputStep(name, value, r) ==
  /\ ehFault = "none"
  /\ myEvent' = r.ev
  /\ ehFault' = r.fault
  /\ mySkipMouseMotion' = r.skip
  /\ ehMode' = myState
  /\ ehHandled' = FALSE
  /\ ehMotions' = IF name = "handleMouseMotionEvent" /\ myState = "EMULATION"
                    /\ ehMotions < MaxMotions
                    THEN ehMotions + 1 ELSE ehMotions
  /\ ehBefore' = myEvent
  /\ ehLog' = <<>>
  /\ ehTrans' = <<>>
  /\ ehOp' = EhOp(name, NoType, value, FALSE, <<>>, 0, mySkipMouseMotion)
  /\ UNCHANGED <<myAllowAllDirectionsFlag, myFryingFlag, myComboTable, combomap,
                 myState, minimal_ui, clearTimer, myOverlay, muted, mapVars, eqVars,
                 stickVars, detVars, dcVars>>

\* a plausible slip: no motion is skipped
handleMouseMotionEventAlways(st, xrel, yrel) ==
  IF st.state = "EMULATION"
    THEN [EventSet(EventSet(st, Ev("MouseAxisXValue"), xrel),
                   Ev("MouseAxisYValue"), yrel) EXCEPT !.skip = FALSE]
    ELSE st

\* handleMouseMotionEvent(x, y, xrel, yrel), lines 262-278; outside the
\* emulation the motion goes to the overlay
handleMouseMotionEvent(st, xrel, yrel) ==
  IF st.state = "EMULATION"
    THEN [(IF ~st.skip
             THEN EventSet(EventSet(st, Ev("MouseAxisXValue"), xrel),
                           Ev("MouseAxisYValue"), yrel)
             ELSE st) EXCEPT !.skip = FALSE]
    ELSE st

HandleMouseMotionEventStep(xrel, yrel) ==
  InputStep("handleMouseMotionEvent", xrel,
            handleMouseMotionEvent(Entry(Env(minimal_ui, TRUE, TRUE, TRUE)), xrel, yrel))

\* handleMouseButtonEvent(b, pressed, x, y), lines 281-303
handleMouseButtonEvent(st, b, pressed) ==
  IF st.state = "EMULATION"
    THEN CASE b = "LEFT" ->
                EventSet(st, Ev("MouseButtonLeftValue"), IF pressed THEN 1 ELSE 0)
           [] b = "RIGHT" ->
                EventSet(st, Ev("MouseButtonRightValue"), IF pressed THEN 1 ELSE 0)
           [] OTHER -> st
    ELSE st

HandleMouseButtonEventStep(b, pressed) ==
  InputStep("handleMouseButtonEvent", IF pressed THEN 1 ELSE 0,
            handleMouseButtonEvent(Entry(Env(minimal_ui, TRUE, TRUE, TRUE)), b, pressed))

\* poll(time), lines 209-249: what pollEvent() reports arrives through the
\* handlers above and handleEvent; the console, the state manager and the
\* overlay are updated outside the dispatcher; the mouse axes are zeroed
poll(st) == EventSet(EventSet(st, Ev("MouseAxisXValue"), 0), Ev("MouseAxisYValue"), 0)

PollStep == InputStep("poll", 0, poll(Entry(Env(minimal_ui, TRUE, TRUE, TRUE))))

\* reset(state), lines 122-138: entering the emulation sets a timeout of
\* half a second that clears the events
ResetStep(state) ==
  /\ ehFault = "none"
  /\ ModeStep("reset", NoType, setState(Entry(Env(minimal_ui, TRUE, TRUE, TRUE)), state))
  /\ myFryingFlag' = FALSE
  /\ clearTimer' = (clearTimer \/ state = "EMULATION")

\* a plausible slip: the timer is periodic
ClearTimerStepPeriodic ==
  /\ ehFault = "none"
  /\ clearTimer
  /\ clearTimer' = TRUE
  /\ myEvent' = [e \in EventIds |-> 0]
  /\ ehBefore' = myEvent
  /\ ehOp' = EhOp("timeout", NoType, 0, FALSE, <<>>, 0, 0)
  /\ ehLog' = <<>>
  /\ UNCHANGED <<myAllowAllDirectionsFlag, myFryingFlag, myComboTable, combomap,
                 ehFault, myState, minimal_ui, ehTrans, uiVars, mapVars, eqVars,
                 stickVars, detVars, dcVars>>

\* the timeout set by reset expires (line 135)
ClearTimerStep ==
  /\ ehFault = "none"
  /\ clearTimer
  /\ clearTimer' = FALSE
  /\ myEvent' = [e \in EventIds |-> 0]
  /\ ehBefore' = myEvent
  /\ ehOp' = EhOp("timeout", NoType, 0, FALSE, <<>>, 0, 0)
  /\ ehLog' = <<>>
  /\ UNCHANGED <<myAllowAllDirectionsFlag, myFryingFlag, myComboTable, combomap,
                 ehFault, myState, minimal_ui, ehTrans, uiVars, mapVars, eqVars,
                 stickVars, detVars, dcVars>>

\* the setting "minimal_ui" is changed
SetMinimalUIStep(b) ==
  /\ ehFault = "none"
  /\ minimal_ui # b
  /\ minimal_ui' = b
  /\ ehOp' = NoEhOp
  /\ ehLog' = <<>>
  /\ UNCHANGED <<myEvent, myAllowAllDirectionsFlag, myFryingFlag, myComboTable,
                 combomap, ehFault, myState, ehTrans, clearTimer, ehBefore, uiVars,
                 mapVars, eqVars, stickVars, detVars, dcVars>>

\* allowAllDirections(allow)
AllowAllDirectionsStep(allow) ==
  /\ ehFault = "none"
  /\ myAllowAllDirectionsFlag # allow
  /\ myAllowAllDirectionsFlag' = allow
  /\ ehOp' = NoEhOp
  /\ ehLog' = <<>>
  /\ UNCHANGED <<myEvent, myFryingFlag, myComboTable, combomap, ehFault, modeVars,
                 mapVars, eqVars, stickVars, detVars, dcVars>>

\* setComboMap(), the settings holding combomap = list and event_ver = version
SetComboMapStep(list, version) ==
  /\ ehFault = "none"
  /\ \E table \in { setComboMap(myComboTable, list, version) } :
        /\ myComboTable' = table
        /\ combomap' = saveComboMapping(table)
  /\ ehOp' = EhOp("setComboMap", NoType, 0, FALSE, list, version, myComboTable)
  /\ ehLog' = <<>>
  /\ UNCHANGED <<myEvent, myAllowAllDirectionsFlag, myFryingFlag, ehFault, modeVars,
                 mapVars, eqVars, stickVars, detVars, dcVars>>

\* a new run of the program: the constructor empties the table (lines 78-82)
\* and setComboMap loads the setting "combomap" the last run saved
SetComboMapInNewRunStep(version) ==
  /\ ehFault = "none"
  /\ \E table \in { setComboMap(EmptyComboTable, combomap, version) } :
        /\ myComboTable' = table
        /\ combomap' = saveComboMapping(table)
  /\ ehOp' = EhOp("newRun", NoType, 0, FALSE, combomap, version, myComboTable)
  /\ ehLog' = <<>>
  /\ UNCHANGED <<myEvent, myAllowAllDirectionsFlag, myFryingFlag, ehFault, modeVars,
                 mapVars, eqVars, stickVars, detVars, dcVars>>

\* setComboListForEvent(event, events)
SetComboListForEventStep(event, events) ==
  /\ ehFault = "none"
  /\ Len(events) = 8
  /\ \E table \in { setComboListForEvent(myComboTable, event, events) } :
        /\ myComboTable' = table
        /\ combomap' = IF IsCombo(event) THEN saveComboMapping(table) ELSE combomap
  /\ ehOp' = EhOp("setComboListForEvent", event, 0, FALSE, events, 0, 0)
  /\ ehLog' = <<>>
  /\ UNCHANGED <<myEvent, myAllowAllDirectionsFlag, myFryingFlag, ehFault, modeVars,
                 mapVars, eqVars, stickVars, detVars, dcVars>>

----------------------------------------------------------------------------
(* Inputs of the dispatcher *)

\* the index of an action in ourEmulActionList
ActionIndex(name) ==
  (CHOOSE i \in 1 .. EMUL_ACTIONLIST_SIZE : ourEmulActionList[i] = name) - 1

\* a list of eight indices as the dialog hands it over, -1 standing for "None"
IndexList(a, b, c) ==
  [i \in 1 .. 8 |-> IntToStr(IF i = 1 THEN a ELSE IF i = 2 THEN b
                                ELSE IF i = 3 THEN c ELSE -1)]

ListUpFire == IndexList(ActionIndex("JoystickZeroUp"), -1, ActionIndex("JoystickZeroFire"))
ListNested == IndexList(ActionIndex("Combo2"), -1, -1)
ListSelf == IndexList(ActionIndex("Combo1"), -1, ActionIndex("JoystickZeroFire"))

\* values of the setting "combomap"
StrEmpty == <<>>
StrWrongCount == <<"1", "5", ":">> \o IntToStr(Ev("JoystickZeroUp"))
StrShortRows ==
  <<"1", "6", ":">> \o IntToStr(Ev("JoystickZeroFire")) \o <<",">>
     \o IntToStr(Ev("JoystickZeroUp")) \o <<":">> \o IntToStr(Ev("Combo1"))
StrOutOfRange == <<"1", "6", ":", "9", "9", "9">>

\* event_ver as an older version of the program stored it
OlderVersion == Event_VERSION - 1

----------------------------------------------------------------------------
(* Saving and loading the binding tables, and the comparison of descriptors *)

\* what saveMapping(mode) wrote, and the bindings the table held for the mode
Saved(str, mode, bindings) == [str |-> str, mode |-> mode, bindings |-> bindings]

\* saved = saveMapping(mode)
KeySaveMappingStep(mode) ==
  /\ kind = "key"
  /\ saved' = Saved(KeySaveMapping(keyMap, mode), mode, KeyBindings(keyMap, mode))
  /\ lastOp' = Op("save", Mapping(mode, 0, KBDM_NONE), NoType, Len(NodesOfMode(keyMap, mode)))
  /\ UNCHANGED <<kind, keyMap, myModEnabled, joyMap, ehVars, eqVars, stickVars, detVars, dcVars>>

\* loadMapping(saved, mode); n: the number of nodes of the mode before it
KeyLoadMappingStep(mode) ==
  /\ kind = "key"
  /\ saved # <<>>
  /\ keyMap' = KeyLoadMapping(keyMap, saved.str, mode)
  /\ lastOp' = Op("load", Mapping(mode, 0, KBDM_NONE), NoType, Len(NodesOfMode(keyMap, mode)))
  /\ UNCHANGED <<kind, myModEnabled, joyMap, saved, ehVars, eqVars, stickVars, detVars, dcVars>>

JoySaveMappingStep(mode) ==
  /\ kind = "joy"
  /\ saved' = Saved(JoySaveMapping(joyMap, mode), mode, JoyBindings(joyMap, mode))
  /\ lastOp' = Op("save", JoyMappingAxis(mode, 0, JoyAxis_NONE, JoyDir_NONE), NoType,
                  Len(NodesOfMode(joyMap, mode)))
  /\ UNCHANGED <<kind, keyMap, myModEnabled, joyMap, ehVars, eqVars, stickVars, detVars, dcVars>>

JoyLoadMappingStep(mode) ==
  /\ kind = "joy"
  /\ saved # <<>>
  /\ joyMap' = JoyLoadMapping(joyMap, saved.str, mode)
  /\ lastOp' = Op("load", JoyMappingAxis(mode, 0, JoyAxis_NONE, JoyDir_NONE), NoType,
                  Len(NodesOfMode(joyMap, mode)))
  /\ UNCHANGED <<kind, keyMap, myModEnabled, saved, ehVars, eqVars, stickVars, detVars, dcVars>>

\* eqA == eqB
CompareStep ==
  /\ eqResult = "unset"
  /\ eqResult' = IF MappingEq(eqA, eqB) THEN "equal" ELSE "unequal"
  /\ UNCHANGED <<eqA, eqB, mapVars, ehVars, stickVars, detVars, dcVars>>

\* the tables of at most n nodes that a sequence of add() calls builds
RECURSIVE KeyTables(_)
KeyTables(n) ==
  IF n = 0 THEN { <<>> }
  ELSE KeyTables(n - 1) \cup
       UNION { { KeyAdd(t, a, d, pos) :
                   a \in BindEvents, d \in KeyDescs, pos \in 1 .. (Len(t) + 1) } :
               t \in KeyTables(n - 1) }

RECURSIVE JoyTables(_)
JoyTables(n) ==
  IF n = 0 THEN { <<>> }
  ELSE JoyTables(n - 1) \cup
       UNION { { JoyAdd(t, a, d, pos) :
                   a \in BindEvents, d \in JoyDescs, pos \in 1 .. (Len(t) + 1) } :
               t \in JoyTables(n - 1) }

\* the modifier masks descriptors are compared with hold at most MaxModBits bits
MaxModBits == 2

EqDescs ==
  { Mapping(mode, key, mod) :
      mode \in Modes, key \in 0 .. MaxKey,
      mod \in { m \in SUBSET ModBits : Cardinality(m) <= MaxModBits } }

----------------------------------------------------------------------------
(* PhysicalJoystickHandler: the sticks available, and the lookups by stick *)

\* stick ids 0..MaxStick
MaxStick == 1

StickIds == 0 .. MaxStick

\* an id mySticks holds no entry for, and an entry with the stick's JoyMap
NoStick == [present |-> FALSE, name |-> "", joyMap |-> <<>>]

Stick(name, map) == [present |-> TRUE, name |-> name, joyMap |-> map]

\* joy(id), lines 123-128: the stick, or nullptr
joy(id) == IF id \in StickIds /\ mySticks[id].present THEN mySticks[id] ELSE NoStick

\* convertAxisValue(value), lines 136-138
convertAxisValue(value) ==
  IF value = JoyDir_NONE THEN JoyDir_NONE
  ELSE IF value > 0 THEN JoyDir_POS ELSE JoyDir_NEG

\* the outcome of a lookup: the event returned, or how the process went wrong
Outcome(result, fault) == [result |-> result, fault |-> fault]

\* the events a read through a null pointer may yield when it does not trap
WildEvents == { NoType, Ev("JoystickZeroFire") }

\* j->joyMap.get(mapping), lines 95, 99, 103: j is used unchecked, and the
\* behaviour of the access through nullptr is undefined
Deref(j, mapping) ==
  IF j.present
    THEN { Outcome(JoyGet(j.joyMap, mapping), "none") }
    ELSE { Outcome(NoType, "nullptr") } \cup { Outcome(e, "none") : e \in WildEvents }

\* eventForAxis(mode, stick, axis, value, button), lines 93-96
eventForAxis(mode, stick, axis, value, button) ==
  Deref(joy(stick), JoyMappingAxis(mode, button, axis, convertAxisValue(value)))

\* eventForButton(mode, stick, button), lines 97-100
eventForButton(mode, stick, button) ==
  Deref(joy(stick), JoyMappingAxis(mode, button, JoyAxis_NONE, JoyDir_NONE))

\* eventForHat(mode, stick, hat, hatDir, button), lines 101-104
eventForHat(mode, stick, hat, hatDir, button) ==
  Deref(joy(stick), JoyMappingHat(mode, button, hat, hatDir))

StickOp(name, stick, connected, outcome) ==
  [name |-> name, stick |-> stick, connected |-> connected,
   result |-> outcome.result, fault |-> outcome.fault, dev |-> "", before |-> <<>>]

NoStickOp == StickOp("none", 0, FALSE, Outcome(NoType, "none"))

\* an operation on the registry: the id and the device name it was about,
\* whether it succeeded, and the table of the stick before it
RegOp(name, stick, dev, ok, before) ==
  [name |-> name, stick |-> stick, connected |-> ok,
   result |-> NoType, fault |-> "none", dev |-> dev, before |-> before]

----------------------------------------------------------------------------
(* PhysicalJoystickHandler: the database of sticks by name *)

\* the names devices report
StickNames == { "Foo", "Bar" }

\* a null PhysicalJoystickPtr handed to add
NullStick == ""

\* StickInfo, lines 49-61: the saved mapping string and the live stick's id
\* (-1 for nullptr); known is whether myDatabase holds an entry for the name
EmptyMapping == [mode \in Modes |-> <<>>]

NoInfo == [known |-> FALSE, mapping |-> EmptyMapping, joy |-> -1]

StickInfo(mapping, id) == [known |-> TRUE, mapping |-> mapping, joy |-> id]

\* PhysicalJoystick::getMap: the mapping string of every mode
getMap(map) == [mode \in Modes |-> JoySaveMapping(map, mode)]

\* PhysicalJoystick::setMap: the table read back from the mapping strings
setMap(mapping) ==
  JoyLoadMapping(JoyLoadMapping(<<>>, mapping[kEmulationMode], kEmulationMode),
                 mapping[kMenuMode], kMenuMode)

FreeIds(sticks) == { id \in StickIds : ~sticks[id].present }

\* a plausible slip: the stick starts with an empty table whatever is saved
addFresh(sticks, db, name) ==
  IF name = NullStick \/ FreeIds(sticks) = {}
    THEN [ID |-> -1, sticks |-> sticks, db |-> db]
    ELSE LET id == CHOOSE i \in FreeIds(sticks) : \A j \in FreeIds(sticks) : i <= j
         IN [ID |-> id,
             sticks |-> [sticks EXCEPT ![id] = Stick(name, <<>>)],
             db |-> [db EXCEPT ![name] =
                       StickInfo(IF @.known THEN @.mapping ELSE EmptyMapping, id)]]

\* add(stick): the lowest free id; the entry of the name is created, or, when
\* there is one, its saved mapping becomes the stick's table
add(sticks, db, name) ==
  IF name = NullStick \/ FreeIds(sticks) = {}
    THEN [ID |-> -1, sticks |-> sticks, db |-> db]
    ELSE LET id == CHOOSE i \in FreeIds(sticks) : \A j \in FreeIds(sticks) : i <= j
             map == IF db[name].known THEN setMap(db[name].mapping) ELSE <<>>
         IN [ID |-> id,
             sticks |-> [sticks EXCEPT ![id] = Stick(name, map)],
             db |-> [db EXCEPT ![name] =
                       StickInfo(IF @.known THEN @.mapping ELSE EmptyMapping, id)]]

\* a plausible slip: the entry of the name leaves the database with the stick
removeForget(sticks, db, id) ==
  IF id \in StickIds /\ sticks[id].present
    THEN [ok |-> TRUE,
          sticks |-> [sticks EXCEPT ![id] = NoStick],
          db |-> [db EXCEPT ![sticks[id].name] = NoInfo]]
    ELSE [ok |-> FALSE, sticks |-> sticks, db |-> db]

\* remove(id): the stick leaves mySticks, its mapping stays in the database
remove(sticks, db, id) ==
  IF id \in StickIds /\ sticks[id].present
    THEN [ok |-> TRUE,
          sticks |-> [sticks EXCEPT ![id] = NoStick],
          db |-> [db EXCEPT ![sticks[id].name] =
                    StickInfo(getMap(sticks[id].joyMap), -1)]]
    ELSE [ok |-> FALSE, sticks |-> sticks, db |-> db]

\* remove(name): the entry of a name without a live stick is purged
removeName(db, name) ==
  IF name \in StickNames /\ db[name].known /\ db[name].joy = -1
    THEN [ok |-> TRUE, db |-> [db EXCEPT ![name] = NoInfo]]
    ELSE [ok |-> FALSE, db |-> db]

\* the bindings of a table in every mode
AllBindings(map) == UNION { JoyBindings(map, mode) : mode \in Modes }

NotSaved == [remembered |-> FALSE, saved |-> FALSE, bindings |-> {}]

----------------------------------------------------------------------------
(* EventHandler::setActionMappings: the key string of every action *)

\* a key string: the sequence of its comma-separated parts, or "None"
KeyString(parts) == [none |-> FALSE, parts |-> parts]

None == [none |-> TRUE, parts |-> <<>>]

ActionList(mode) == IF mode = kEmulationMode THEN ourEmulActionList ELSE ourMenuActionList

\* PhysicalKeyboardHandler::getMappingDesc: the keys bound to the event
KeyMappingDesc(map, event, mode) ==
  LET ns == SelectSeq(map, LAMBDA n : n.e = event /\ n.m.mode = mode)
  IN [i \in 1 .. Len(ns) |-> [stick |-> -1, m |-> ns[i].m]]

\* PhysicalJoystickHandler::getMappingDesc: for every stick available, by id,
\* what it binds to the event
RECURSIVE JoyMappingDesc(_, _, _, _)
JoyMappingDesc(sticks, event, mode, id) ==
  IF id \notin StickIds THEN <<>>
  ELSE LET ns == SelectSeq(sticks[id].joyMap, LAMBDA n : n.e = event /\ n.m.mode = mode)
       IN [i \in 1 .. Len(ns) |-> [stick |-> id, m |-> ns[i].m]]
            \o JoyMappingDesc(sticks, event, mode, id + 1)

\* the string setActionMappings computes for one event, lines 1039-1054
ActionKey(kmap, sticks, name, mode) ==
  LET key == KeyMappingDesc(kmap, Ev(name), mode)
               \o JoyMappingDesc(sticks, Ev(name), mode, 0)
  IN IF key # <<>> THEN KeyString(key) ELSE None

setActionMappings(keys, kmap, sticks, mode) ==
  IF mode \notin Modes THEN keys
  ELSE [keys EXCEPT ![mode] =
          [i \in 1 .. Len(ActionList(mode)) |->
             ActionKey(kmap, sticks, ActionList(mode)[i], mode)]]

\* the key strings before initialize(): empty
NoKeys == [mode \in Modes |-> [i \in 1 .. Len(ActionList(mode)) |-> KeyString(<<>>)]]

----------------------------------------------------------------------------
(* The registry operations of EventHandler as steps *)

\* addPhysicalJoystick(joy), lines 141-156
AddPhysicalJoystickStep(name) ==
  LET r == add(mySticks, myDatabase, name)
  IN /\ stickOp.fault = "none"
     /\ mySticks' = r.sticks
     /\ myDatabase' = r.db
     /\ actionKeys' =
          IF r.ID < 0 THEN actionKeys
          ELSE setActionMappings(
                 setActionMappings(actionKeys, keyMap, r.sticks, kEmulationMode),
                 keyMap, r.sticks, kMenuMode)
     /\ regSaved' = IF r.ID < 0 THEN regSaved
                    ELSE [regSaved EXCEPT ![name].remembered = TRUE]
     /\ stickOp' = RegOp("add", r.ID, name, r.ID >= 0, <<>>)
     /\ UNCHANGED <<mapVars, ehVars, eqVars, detVars, dcVars>>

\* removePhysicalJoystick(id), lines 159-164
RemovePhysicalJoystickStep(id) ==
  LET r == remove(mySticks, myDatabase, id)
  IN /\ stickOp.fault = "none"
     /\ mySticks' = r.sticks
     /\ myDatabase' = r.db
     /\ regSaved' =
          IF r.ok
            THEN [regSaved EXCEPT ![mySticks[id].name].saved = TRUE,
                                  ![mySticks[id].name].bindings =
                                     AllBindings(mySticks[id].joyMap)]
            ELSE regSaved
     /\ stickOp' = RegOp("remove", id, mySticks[id].name, r.ok, mySticks[id].joyMap)
     /\ UNCHANGED <<actionKeys, mapVars, ehVars, eqVars, detVars, dcVars>>

\* removePhysicalJoystickFromDatabase(name), lines 1111-1116
RemovePhysicalJoystickFromDatabaseStep(name) ==
  LET r == removeName(myDatabase, name)
  IN /\ stickOp.fault = "none"
     /\ myDatabase' = r.db
     /\ regSaved' = IF r.ok THEN [regSaved EXCEPT ![name] = NotSaved] ELSE regSaved
     /\ stickOp' = RegOp("removeName", -1, name, r.ok, <<>>)
     /\ UNCHANGED <<mySticks, actionKeys, mapVars, ehVars, eqVars, detVars, dcVars>>

\* PhysicalJoystickHandler::addJoyMapping / addJoyHatMapping: the binding is
\* made on a stick that is available
addJoyMapping(sticks, event, stick, mapping) ==
  IF stick \in StickIds /\ sticks[stick].present
    THEN [mapped |-> TRUE,
          sticks |-> [sticks EXCEPT ![stick].joyMap = JoyAdd(@, event, mapping, 1)]]
    ELSE [mapped |-> FALSE, sticks |-> sticks]

\* EventHandler::addJoyMapping / addJoyHatMapping, lines 1129-1158
AddJoyMappingStep(event, stick, mapping, updateMenus) ==
  LET r == addJoyMapping(mySticks, event, stick, mapping)
  IN /\ stickOp.fault = "none"
     /\ Len(r.sticks[stick].joyMap) <= MaxEntries
     /\ mySticks' = r.sticks
     /\ actionKeys' =
          IF r.mapped /\ updateMenus
            THEN setActionMappings(actionKeys, keyMap, r.sticks, mapping.mode)
            ELSE actionKeys
     /\ stickOp' = RegOp("addJoyMapping", stick, mySticks[stick].name, r.mapped,
                         mySticks[stick].joyMap)
     /\ UNCHANGED <<myDatabase, regSaved, mapVars, ehVars, eqVars, detVars, dcVars>>

----------------------------------------------------------------------------
(* PhysicalJoystickHandler: the default mappings *)

\* the starter bindings of a mode: the fire button in emulation, hat up in menus
DefaultMapping(mode) ==
  IF mode = kEmulationMode
    THEN << Node(JoyMappingAxis(kEmulationMode, 0, JoyAxis_NONE, JoyDir_NONE),
                 Ev("JoystickZeroFire")) >>
    ELSE << Node(JoyMappingHat(kMenuMode, JOY_CTRL_NONE, 0, JoyHat_UP), Ev("UIUp")) >>

\* the controller kinds defaults are defined for, and the two jacks
ControllerNames == { "Joystick", "Paddles" }

Jacks == { "Left", "Right" }

\* the starter bindings of a controller kind on a jack
ControllerMapping(controllerName, jack, mode) ==
  IF mode = kEmulationMode
    THEN << Node(JoyMappingAxis(kEmulationMode, 0, JoyAxis_NONE, JoyDir_NONE),
                 Ev(IF controllerName = "Paddles"
                      THEN (IF jack = "Left" THEN "PaddleZeroFire" ELSE "PaddleOneFire")
                      ELSE (IF jack = "Left" THEN "JoystickZeroFire"
                                             ELSE "JoystickOneFire"))) >>
    ELSE DefaultMapping(mode)

\* a plausible slip: every default is written, whatever the table holds
RECURSIVE installDefaultsAlways(_, _, _)
installDefaultsAlways(map, defaults, type) ==
  IF defaults = <<>> THEN map
  ELSE LET d == Head(defaults)
       IN installDefaultsAlways(
            IF type = NoType \/ d.e = type THEN JoyAdd(map, d.e, d.m, 1) ELSE map,
            Tail(defaults), type)

\* the defaults asked for (all of them for NoType) are written, each only when
\* its action has no binding in the mode and its descriptor is not bound
RECURSIVE installDefaults(_, _, _)
installDefaults(map, defaults, type) ==
  IF defaults = <<>> THEN map
  ELSE LET d == Head(defaults)
           free == /\ JoyEraseEvent(map, d.e, d.m.mode) = map
                   /\ JoyGet(map, d.m) = NoType
       IN installDefaults(
            IF (type = NoType \/ d.e = type) /\ free
              THEN JoyAdd(map, d.e, d.m, 1) ELSE map,
            Tail(defaults), type)

\* setStickDefaultMapping(stick, type, mode), lines 130-132
setStickDefaultMapping(sticks, stick, type, mode) ==
  IF stick \in StickIds /\ sticks[stick].present
    THEN [sticks EXCEPT ![stick].joyMap = installDefaults(@, DefaultMapping(mode), type)]
    ELSE sticks

\* setDefaultMapping(type, mode), line 71: every stick available
RECURSIVE setDefaultMapping(_, _, _, _)
setDefaultMapping(sticks, type, mode, id) ==
  IF id \notin StickIds THEN sticks
  ELSE setDefaultMapping(setStickDefaultMapping(sticks, id, type, mode), type, mode, id + 1)

\* defineControllerMappings(controllerName, port), lines 73-74: the starter
\* bindings of the kind and jack, for every mode, on every stick available
defineControllerMappings(sticks, controllerName, jack) ==
  [id \in StickIds |->
     IF sticks[id].present
       THEN [sticks[id] EXCEPT !.joyMap =
               installDefaults(
                 installDefaults(@, ControllerMapping(controllerName, jack, kEmulationMode),
                                 NoType),
                 ControllerMapping(controllerName, jack, kMenuMode), NoType)]
       ELSE sticks[id]]

\* EventHandler::setDefaultJoymap(event, mode), lines 1190-1196
SetDefaultJoymapStep(event, mode) ==
  LET sticks == setDefaultMapping(mySticks, event, mode, 0)
  IN /\ stickOp.fault = "none"
     /\ mySticks' = sticks
     /\ actionKeys' = setActionMappings(actionKeys, keyMap, sticks, mode)
     /\ stickOp' = RegOp("setDefaultJoymap", -1, "", TRUE, mySticks)
     /\ UNCHANGED <<myDatabase, regSaved, mapVars, ehVars, eqVars, detVars, dcVars>>

\* the defaults of a controller kind are installed for a jack
DefineControllerMappingsStep(controllerName, jack) ==
  /\ stickOp.fault = "none"
  /\ mySticks' = defineControllerMappings(mySticks, controllerName, jack)
  /\ stickOp' = RegOp("defineControllerMappings", -1, "", TRUE, mySticks)
  /\ UNCHANGED <<myDatabase, actionKeys, regSaved, mapVars, ehVars, eqVars, detVars, dcVars>>

LookupStep(name, stick, outcomes) ==
  /\ stickOp.fault = "none"
  /\ \E o \in outcomes : stickOp' = StickOp(name, stick, joy(stick).present, o)
  /\ UNCHANGED <<mySticks, myDatabase, actionKeys, regSaved, mapVars, ehVars,
                 eqVars, detVars, dcVars>>

EventForAxisStep(mode, stick, axis, value, button) ==
  LookupStep("eventForAxis", stick, eventForAxis(mode, stick, axis, value, button))

EventForButtonStep(mode, stick, button) ==
  LookupStep("eventForButton", stick, eventForButton(mode, stick, button))

EventForHatStep(mode, stick, hat, hatDir, button) ==
  LookupStep("eventForHat", stick, eventForHat(mode, stick, hat, hatDir, button))

----------------------------------------------------------------------------
(* ControllerDetector: the search for byte signatures and the checks *)

\* a plausible repair: the last offset, imagesize - sigsize, is tried too
searchForBytesToEnd(img, sig) ==
  /\ Len(img) >= Len(sig)
  /\ \E i \in 0 .. (Len(img) - Len(sig)) :
        \A j \in 0 .. (Len(sig) - 1) : img[i + j + 1] = sig[j + 1]

\* searchForBytes(image, imagesize, signature, sigsize), lines 86-107: the
\* offsets tried are those with i < imagesize - sigsize
searchForBytes(img, sig) ==
  /\ Len(img) >= Len(sig)
  /\ \E i \in 0 .. (Len(img) - Len(sig) - 1) :
        \A j \in 0 .. (Len(sig) - 1) : img[i + j + 1] = sig[j + 1]

\* usesJoystickButton: signature_0, signature_1, signature_2 of the port, in the
\* order searched (lines 117-167 and 186-221)
JoystickButtonSigs(p) ==
  IF p = "Left"
    THEN << <<\h24, \h0c, \h10>>, <<\h24, \h0c, \h30>>, <<\ha5, \h0c, \h10>>,
            <<\ha5, \h0c, \h30>>, <<\hb5, \h0c, \h10>>, <<\hb5, \h0c, \h30>>,
            <<\h24, \h3c, \h10>>, <<\h24, \h3c, \h30>>, <<\ha5, \h3c, \h10>>,
            <<\ha5, \h3c, \h30>>, <<\hb5, \h3c, \h10>>, <<\hb5, \h3c, \h30>>,
            <<\hb4, \h0c, \h30>>, <<\ha5, \h3c, \h2a>>, <<\ha6, \h3c, \h8e>>,
            <<\ha4, \h3c, \h8c>>, <<\ha5, \h0c, \h8d>>, <<\ha4, \h0c, \h30>>,
            <<\ha4, \h3c, \h30>>, <<\ha5, \h0c, \h25>>, <<\ha6, \h3c, \h30>>,
            <<\ha6, \h0c, \h30>>, <<\ha5, \h0c, \h0a>>,
            <<\hb9, \h0c, \h00, \h10>>, <<\hb9, \h0c, \h00, \h30>>,
            <<\hb9, \h3c, \h00, \h10>>, <<\hb9, \h3c, \h00, \h30>>,
            <<\ha5, \h0c, \h0a, \hb0>>, <<\hb5, \h0c, \h29, \h80>>,
            <<\hb5, \h3c, \h29, \h80>>, <<\ha5, \h0c, \h29, \h80>>,
            <<\ha5, \h3c, \h29, \h80>>, <<\ha5, \h0c, \h25, \h0d, \h10>>,
            <<\ha5, \h0c, \h25, \h0d, \h30>>, <<\ha5, \h3c, \h25, \h3d, \h10>>,
            <<\ha5, \h3c, \h25, \h3d, \h30>>, <<\hb5, \h38, \h29, \h80, \hd0>>,
            <<\ha9, \h80, \h24, \h0c, \hd0>>, <<\ha5, \h0c, \h29, \h80, \hd0>>,
            <<\ha5, \h3c, \h29, \h80, \hd0>>, <<\had, \h0c, \h00, \h29, \h80>> >>
    ELSE << <<\h24, \h0d, \h10>>, <<\h24, \h0d, \h30>>, <<\ha5, \h0d, \h10>>,
            <<\ha5, \h0d, \h30>>, <<\hb5, \h0c, \h10>>, <<\hb5, \h0c, \h30>>,
            <<\h24, \h3d, \h10>>, <<\h24, \h3d, \h30>>, <<\ha5, \h3d, \h10>>,
            <<\ha5, \h3d, \h30>>, <<\hb5, \h3c, \h10>>, <<\hb5, \h3c, \h30>>,
            <<\ha4, \h3d, \h30>>, <<\ha5, \h0d, \h25>>, <<\ha6, \h3d, \h30>>,
            <<\ha6, \h0d, \h30>>, <<\hb9, \h0c, \h00, \h10>>,
            <<\hb9, \h0c, \h00, \h30>>, <<\hb9, \h3c, \h00, \h10>>,
            <<\hb9, \h3c, \h00, \h30>>, <<\hb5, \h0c, \h29, \h80>>,
            <<\hb5, \h3c, \h29, \h80>>, <<\ha5, \h3d, \h29, \h80>>,
            <<\hb5, \h38, \h29, \h80, \hd0>>, <<\ha9, \h80, \h24, \h0d, \hd0>>,
            <<\had, \h0d, \h00, \h29, \h80>> >>

\* usesKeyboard: signature_0_0 and signature_0_2, the first input line of the
\* port (lines 246-258 and 312-323)
KeyboardSigs0(p) ==
  IF p = "Left"
    THEN << <<\h24, \h38, \h30>>, <<\ha5, \h38, \h10>>, <<\ha4, \h38, \h30>>,
            <<\hb5, \h38, \h30>>, <<\h24, \h08, \h30>>, <<\ha6, \h08, \h30>>,
            <<\hb5, \h38, \h29, \h80, \hd0>> >>
    ELSE << <<\h24, \h3a, \h30>>, <<\ha5, \h3a, \h10>>, <<\ha4, \h3a, \h30>>,
            <<\h24, \h0a, \h30>>, <<\ha6, \h0a, \h30>>,
            <<\hb5, \h38, \h29, \h80, \hd0>> >>

\* usesKeyboard: signature_1_0 and signature_1_2, the second input line of the
\* port (lines 262-275 and 327-338)
KeyboardSigs1(p) ==
  IF p = "Left"
    THEN << <<\h24, \h39, \h10>>, <<\h24, \h39, \h30>>, <<\ha5, \h39, \h10>>,
            <<\ha4, \h39, \h30>>, <<\hb5, \h38, \h30>>, <<\h24, \h09, \h30>>,
            <<\ha6, \h09, \h30>>, <<\hb5, \h38, \h29, \h80, \hd0>> >>
    ELSE << <<\h24, \h3b, \h30>>, <<\ha5, \h3b, \h10>>, <<\ha4, \h3b, \h30>>,
            <<\h24, \h0b, \h30>>, <<\ha6, \h0b, \h30>>,
            <<\hb5, \h38, \h29, \h80, \hd0>> >>

\* usesGenesisButton: signature_0 of the port (lines 384-403 and 413-424)
GenesisSigs(p) ==
  IF p = "Left"
    THEN << <<\h24, \h09, \h10>>, <<\h24, \h09, \h30>>, <<\ha5, \h09, \h10>>,
            <<\ha5, \h09, \h30>>, <<\ha4, \h09, \h30>>, <<\ha6, \h09, \h30>>,
            <<\h24, \h39, \h10>>, <<\h24, \h39, \h30>>, <<\ha5, \h39, \h10>>,
            <<\ha5, \h39, \h30>>, <<\ha4, \h39, \h30>>, <<\ha5, \h39, \h6a>>,
            <<\ha6, \h39, \h8e>>, <<\ha4, \h39, \h8c>>, <<\ha5, \h09, \h8d>>,
            <<\ha5, \h09, \h29>>, <<\h25, \h39, \h30>>, <<\h25, \h09, \h10>> >>
    ELSE << <<\h24, \h0b, \h10>>, <<\h24, \h0b, \h30>>, <<\ha5, \h0b, \h10>>,
            <<\ha5, \h0b, \h30>>, <<\h24, \h3b, \h10>>, <<\h24, \h3b, \h30>>,
            <<\ha5, \h3b, \h10>>, <<\ha5, \h3b, \h30>>, <<\ha6, \h3b, \h8e>>,
            <<\h25, \h0b, \h10>> >>

\* usesPaddle: signature_0, signature_1, signature_2 of the port (lines 441-472
\* and 491-522)
PaddleSigs(p) ==
  IF p = "Left"
    THEN << <<\ha5, \h08, \h10>>, <<\ha5, \h08, \h30>>, <<\hb5, \h08, \h30>>,
            <<\h24, \h38, \h10>>, <<\h24, \h38, \h30>>, <<\ha5, \h38, \h10>>,
            <<\ha5, \h38, \h30>>, <<\hb5, \h38, \h10>>, <<\hb5, \h38, \h30>>,
            <<\h68, \h48, \h10>>, <<\ha5, \h08, \h4c>>, <<\ha4, \h38, \h30>>,
            <<\hb9, \h08, \h00, \h30>>, <<\hb9, \h38, \h00, \h30>>,
            <<\h24, \h08, \h30, \h02>>, <<\hb5, \h38, \h29, \h80, \hd0>>,
            <<\h24, \h38, \h85, \h08, \h10>>, <<\hb5, \h38, \h49, \hff, \h0a>>,
            <<\hb1, \hf2, \h30, \h02, \he6>> >>
    ELSE << <<\h24, \h0a, \h10>>, <<\h24, \h0a, \h30>>, <<\ha5, \h0a, \h10>>,
            <<\ha5, \h0a, \h30>>, <<\hb5, \h0a, \h10>>, <<\hb5, \h0a, \h30>>,
            <<\hb5, \h08, \h10>>, <<\hb5, \h08, \h30>>, <<\h24, \h3a, \h10>>,
            <<\h24, \h3a, \h30>>, <<\ha5, \h3a, \h10>>, <<\ha5, \h3a, \h30>>,
            <<\hb5, \h3a, \h10>>, <<\hb5, \h3a, \h30>>, <<\hb5, \h38, \h10>>,
            <<\hb5, \h38, \h30>>, <<\ha4, \h3a, \h30>>, <<\ha5, \h3b, \h30>>,
            <<\hb9, \h38, \h00, \h30>>, <<\hb5, \h38, \h29, \h80, \hd0>>,
            <<\h24, \h38, \h85, \h08, \h10>>, <<\hb5, \h38, \h49, \hff, \h0a>> >>

\* isProbablyTrakBall: signature (lines 546-550)
TrakBallSigs ==
  << <<\h0a, \h08, \h08, \h0a, \h02, \h00>>,
     <<\h00, \h07, \h87, \h07, \h88, \h01>>,
     <<\h00, \h01, \h81, \h01, \h82, \h03>> >>

\* isProbablyAtariMouse: signature (lines 565-569)
AtariMouseSigs ==
  << <<\h05, \h07, \h04, \h06, \h0d, \h0f>>,
     <<\h00, \h87, \h07, \h00, \h08, \h81>>,
     <<\h00, \h81, \h01, \h00, \h02, \h83>> >>

\* isProbablyAmigaMouse: signature (lines 584-589)
AmigaMouseSigs ==
  << <<\h0c, \h08, \h04, \h00, \h0d, \h09>>,
     <<\h00, \h88, \h07, \h01, \h08, \h00>>,
     <<\h00, \h82, \h01, \h03, \h02, \h00>>,
     <<\h04, \h00, \h00, \h00, \h05, \h01>> >>

\* isProbablySaveKey: signature, right port only (lines 606-632)
SaveKeySigs ==
  << <<\ha9, \h08, \h8d, \h80, \h02, \ha9, \h0c, \h8d, \h81>>,
     <<\ha9, \h18, \h8d, \h80, \h02, \h4a, \h8d, \h81, \h02>>,
     <<\ha2, \h08, \h8e, \h80, \h02, \ha2, \h0c, \h8e, \h81>>,
     <<\ha9, \h08, \h8d, \h80, \h02, \hea, \ha9, \h0c, \h8d>> >>

\* the loops "for each signature: if searchForBytes(...) return true"
AnyFound(img, sigs) == \E i \in 1 .. Len(sigs) : searchForBytes(img, sigs[i])

\* usesJoystickButton(image, size, port), lines 110-236
usesJoystickButton(img, p) == AnyFound(img, JoystickButtonSigs(p))

\* a plausible slip: one of the two input lines is enough
usesKeyboardEither(img, p) ==
  AnyFound(img, KeyboardSigs0(p)) \/ AnyFound(img, KeyboardSigs1(p))

\* usesKeyboard(image, size, port), lines 239-374: a signature of the first
\* line, and then one of the second
usesKeyboard(img, p) ==
  AnyFound(img, KeyboardSigs0(p)) /\ AnyFound(img, KeyboardSigs1(p))

\* usesGenesisButton(image, size, port), lines 377-430
usesGenesisButton(img, p) == AnyFound(img, GenesisSigs(p))

\* usesPaddle(image, size, port, settings), lines 433-538
usesPaddle(img, p) == AnyFound(img, PaddleSigs(p))

\* isProbablyTrakBall, isProbablyAtariMouse, isProbablyAmigaMouse, lines 541-596
isProbablyTrakBall(img) == AnyFound(img, TrakBallSigs)

isProbablyAtariMouse(img) == AnyFound(img, AtariMouseSigs)

isProbablyAmigaMouse(img) == AnyFound(img, AmigaMouseSigs)

\* isProbablySaveKey(image, size, port), lines 599-640
isProbablySaveKey(img, p) == p = "Right" /\ AnyFound(img, SaveKeySigs)

\* a plausible slip: the keyboard is asked about before the pointing devices
autodetectPortKeyboardFirst(img, p) ==
  IF isProbablySaveKey(img, p) THEN "SAVEKEY"
  ELSE IF usesJoystickButton(img, p)
    THEN IF usesKeyboard(img, p) THEN "KEYBOARD"
         ELSE IF isProbablyTrakBall(img) THEN "TRAKBALL"
         ELSE IF isProbablyAtariMouse(img) THEN "ATARIMOUSE"
         ELSE IF isProbablyAmigaMouse(img) THEN "AMIGAMOUSE"
         ELSE IF usesGenesisButton(img, p) THEN "GENESIS"
         ELSE "JOYSTICK"
  ELSE IF usesPaddle(img, p) THEN "PADDLES"
  ELSE "JOYSTICK"

\* a plausible slip: the type starts as "AUTO" and stays so when no check
\* matches
autodetectPortNoDefault(img, p) ==
  IF isProbablySaveKey(img, p) THEN "SAVEKEY"
  ELSE IF usesJoystickButton(img, p)
    THEN IF isProbablyTrakBall(img) THEN "TRAKBALL"
         ELSE IF isProbablyAtariMouse(img) THEN "ATARIMOUSE"
         ELSE IF isProbablyAmigaMouse(img) THEN "AMIGAMOUSE"
         ELSE IF usesKeyboard(img, p) THEN "KEYBOARD"
         ELSE IF usesGenesisButton(img, p) THEN "GENESIS"
         ELSE "AUTO"
  ELSE IF usesPaddle(img, p) THEN "PADDLES"
  ELSE "AUTO"

\* autodetectPort(image, size, port, settings), lines 54-83
autodetectPort(img, p) ==
  IF isProbablySaveKey(img, p) THEN "SAVEKEY"
  ELSE IF usesJoystickButton(img, p)
    THEN IF isProbablyTrakBall(img) THEN "TRAKBALL"
         ELSE IF isProbablyAtariMouse(img) THEN "ATARIMOUSE"
         ELSE IF isProbablyAmigaMouse(img) THEN "AMIGAMOUSE"
         ELSE IF usesKeyboard(img, p) THEN "KEYBOARD"
         ELSE IF usesGenesisButton(img, p) THEN "GENESIS"
         ELSE "JOYSTICK"
  ELSE IF usesPaddle(img, p) THEN "PADDLES"
  ELSE "JOYSTICK"

\* the function applied, the type it returned or the answer it gave
DetOp(name, type, found) == [name |-> name, type |-> type, found |-> found]

NoDetOp == DetOp("none", "none", FALSE)

\* searchForBytes is applied to the image and the signature
SearchForBytesStep ==
  /\ detOp = NoDetOp
  /\ detOp' = DetOp("searchForBytes", "none", searchForBytes(image, signature))
  /\ UNCHANGED <<image, port, signature, mapVars, ehVars, eqVars, stickVars, dcVars>>

\* usesKeyboard is applied to the image and the port
UsesKeyboardStep ==
  /\ detOp = NoDetOp
  /\ detOp' = DetOp("usesKeyboard", "none", usesKeyboard(image, port))
  /\ UNCHANGED <<image, port, signature, mapVars, ehVars, eqVars, stickVars, dcVars>>

\* autodetectPort is applied to the image and the port
AutodetectPortStep ==
  /\ detOp = NoDetOp
  /\ detOp' = DetOp("autodetectPort", autodetectPort(image, port), FALSE)
  /\ UNCHANGED <<image, port, signature, mapVars, ehVars, eqVars, stickVars, dcVars>>

\* images of at most MaxImage bytes and signatures of at most MaxSig bytes,
\* over two byte values
MaxImage == 4

MaxSig == 2

RECURSIVE SeqsOf(_, _)
SeqsOf(bytes, n) ==
  IF n = 0 THEN { <<>> }
  ELSE { Append(q, b) : q \in SeqsOf(bytes, n - 1), b \in bytes }

SeqsUpTo(bytes, n) == UNION { SeqsOf(bytes, k) : k \in 0 .. n }

\* images made of at most MaxChunks signatures, with or without a byte after
\* the last of them
MaxChunks == 3

\* a byte of no signature (nop)
Filler == << \hea >>

\* one signature of every check of the port, and the indexed access that is
\* in both keyboard tables
Chunks(p) ==
  { SaveKeySigs[1], JoystickButtonSigs(p)[1], TrakBallSigs[1], AtariMouseSigs[1],
    AmigaMouseSigs[1], KeyboardSigs0(p)[1], KeyboardSigs1(p)[1],
    KeyboardSigs0(p)[Len(KeyboardSigs0(p))], GenesisSigs(p)[3], PaddleSigs(p)[1] }

RECURSIVE Concat(_)
Concat(chunks) ==
  IF chunks = <<>> THEN <<>> ELSE Head(chunks) \o Concat(Tail(chunks))

Images(p) ==
  { Concat(q) \o pad : q \in SeqsUpTo(Chunks(p), MaxChunks), pad \in { <<>>, Filler } }

----------------------------------------------------------------------------
(* Specifications *)

MapIdle ==
  /\ kind = "idle"
  /\ keyMap = <<>>
  /\ myModEnabled = TRUE
  /\ joyMap = <<>>
  /\ saved = <<>>
  /\ lastOp = NoOp

\* the EventHandler after construction (lines 63-82)
EhInit ==
  /\ myEvent = [e \in EventIds |-> 0]
  /\ myAllowAllDirectionsFlag = FALSE
  /\ myFryingFlag = FALSE
  /\ myComboTable = EmptyComboTable
  /\ combomap = <<>>
  /\ ehLog = <<>>
  /\ ehOp = NoEhOp
  /\ ehFault = "none"
  /\ myState = "NONE"
  /\ minimal_ui = FALSE
  /\ ehTrans = <<>>
  /\ myOverlay = "none"
  /\ muted = FALSE
  /\ mySkipMouseMotion = TRUE
  /\ ehMode = "NONE"
  /\ ehHandled = FALSE
  /\ ehMotions = 0
  /\ clearTimer = FALSE
  /\ ehBefore = [e \in EventIds |-> 0]

EqIdle ==
  /\ eqA = Mapping(kEmulationMode, 0, KBDM_NONE)
  /\ eqB = Mapping(kEmulationMode, 0, KBDM_NONE)
  /\ eqResult = "unset"

\* no stick is available, and no lookup was made
StickIdle ==
  /\ mySticks = [id \in StickIds |-> NoStick]
  /\ myDatabase = [name \in StickNames |-> NoInfo]
  /\ actionKeys = NoKeys
  /\ regSaved = [name \in StickNames |-> NotSaved]
  /\ stickOp = NoStickOp

----------------------------------------------------------------------------
(* DialogContainer (src/gui/DialogContainer.cxx): continuous events.  The  *)
(* dialogs themselves are outside the model: what the container sends to   *)
(* the dialog on top is recorded, and a dialog changes nothing here.       *)

kRepeatInitialDelay == 400
kRepeatSustainDelay == 50

\* the most dialogs stacked at once
MaxDialogs == 2

InputKinds == { "button", "axis", "hat" }

NoButtonDown == [stick |-> -1, button |-> -1]

\* DialogContainer.cxx 29-38 and reset(), 348-359: no dialog, time 0, nothing
\* held; the members reset() leaves alone are never read before they are set
DcInit ==
  /\ myDialogStack = 0
  /\ myTime = 0
  /\ myCurrentMouseDown = [x |-> 0, y |-> 0, b |-> "NONE"]
  /\ myClickRepeatTime = 0
  /\ myCurrentButtonDown = NoButtonDown
  /\ myButtonRepeatTime = 0
  /\ myCurrentAxisDown = [stick |-> -1, axis |-> -1, value |-> 0]
  /\ myAxisRepeatTime = 0
  /\ myCurrentHatDown = [stick |-> -1, hat |-> -1, value |-> "CENTER"]
  /\ myHatRepeatTime = 0
  /\ dcPressed = [k \in InputKinds |-> 0]
  /\ dcRepeated = [k \in InputKinds |-> -1]
  /\ dcOp = [name |-> "none"]

\* a plausible slip: a repeat is due as soon as its time is reached
DueAtOrAfter(repeatTime, time) == repeatTime <= time

\* lines 53, 62, 69, 77: the test "myButtonRepeatTime < myTime"
Due(repeatTime, time) == repeatTime < time

\* DialogContainer::updateTime(time), lines 41-83; time is in microseconds
UpdateTimeStep(time) ==
  /\ IF myDialogStack = 0
       THEN /\ UNCHANGED <<myTime, myClickRepeatTime, myButtonRepeatTime,
                           myAxisRepeatTime, myHatRepeatTime, dcRepeated>>
            /\ dcOp' = [name |-> "updateTime", time |-> time, sent |-> <<>>,
                        repeated |-> dcRepeated]
       ELSE LET now == time \div 1000
                mouse == myCurrentMouseDown.b # "NONE" /\ Due(myClickRepeatTime, now)
                button == myCurrentButtonDown.stick # -1 /\ Due(myButtonRepeatTime, now)
                axis == myCurrentAxisDown.stick # -1 /\ Due(myAxisRepeatTime, now)
                hat == myCurrentHatDown.stick # -1 /\ Due(myHatRepeatTime, now)
            IN /\ myTime' = now
               /\ myClickRepeatTime' = IF mouse THEN now + kRepeatSustainDelay
                                       ELSE myClickRepeatTime
               /\ myButtonRepeatTime' = IF button THEN now + kRepeatSustainDelay
                                        ELSE myButtonRepeatTime
               /\ myAxisRepeatTime' = IF axis THEN now + kRepeatSustainDelay
                                      ELSE myAxisRepeatTime
               /\ myHatRepeatTime' = IF hat THEN now + kRepeatSustainDelay
                                     ELSE myHatRepeatTime
               /\ dcRepeated' = [k \in InputKinds |->
                                   IF \/ k = "button" /\ button
                                      \/ k = "axis" /\ axis
                                      \/ k = "hat" /\ hat
                                     THEN now ELSE dcRepeated[k]]
               /\ dcOp' = [name |-> "updateTime", time |-> time,
                           sent |-> (IF mouse THEN <<"mouse">> ELSE <<>>)
                                    \o (IF button THEN <<"button">> ELSE <<>>)
                                    \o (IF axis THEN <<"axis">> ELSE <<>>)
                                    \o (IF hat THEN <<"hat">> ELSE <<>>),
                           repeated |-> dcRepeated]
  /\ UNCHANGED <<myDialogStack, myCurrentMouseDown, myCurrentButtonDown,
                 myCurrentAxisDown, myCurrentHatDown, dcPressed,
                 mapVars, ehVars, eqVars, stickVars, detVars>>

\* line 294: the test "stick == myCurrentButtonDown.stick"
ReleasesCurrent(stick, button) == stick = myCurrentButtonDown.stick

\* DialogContainer::handleJoyBtnEvent(stick, button, pressed), lines 275-299
HandleJoyBtnEventStep(stick, button, pressed) ==
  /\ IF myDialogStack = 0
       THEN UNCHANGED <<myCurrentButtonDown, myButtonRepeatTime, dcPressed, dcRepeated>>
       ELSE IF pressed
         THEN /\ myCurrentButtonDown' = [stick |-> stick, button |-> button]
              /\ myButtonRepeatTime' = myTime + kRepeatInitialDelay
              /\ dcPressed' = [dcPressed EXCEPT !["button"] = myTime]
              /\ dcRepeated' = [dcRepeated EXCEPT !["button"] = -1]
         ELSE /\ myCurrentButtonDown' =
                   IF ReleasesCurrent(stick, button) THEN NoButtonDown
                   ELSE myCurrentButtonDown
              /\ UNCHANGED <<myButtonRepeatTime, dcPressed, dcRepeated>>
  /\ dcOp' = [name |-> "handleJoyBtnEvent", stick |-> stick, button |-> button,
              pressed |-> pressed,
              sent |-> IF myDialogStack = 0 THEN <<>>
                       ELSE IF pressed THEN <<"handleJoyDown">> ELSE <<"handleJoyUp">>,
              down |-> myCurrentButtonDown]
  /\ UNCHANGED <<myDialogStack, myTime, myCurrentMouseDown, myClickRepeatTime,
                 myCurrentAxisDown, myAxisRepeatTime, myCurrentHatDown,
                 myHatRepeatTime, mapVars, ehVars, eqVars, stickVars, detVars>>

\* DialogContainer::handleJoyAxisEvent(stick, axis, value, button), 302-323
HandleJoyAxisEventStep(stick, axis, value) ==
  /\ IF myDialogStack = 0
       THEN UNCHANGED <<myCurrentAxisDown, myAxisRepeatTime, dcPressed, dcRepeated>>
       ELSE IF myCurrentAxisDown.stick = stick /\ value = 0
         THEN /\ myCurrentAxisDown' = [myCurrentAxisDown EXCEPT !.stick = -1, !.axis = -1]
              /\ UNCHANGED <<myAxisRepeatTime, dcPressed, dcRepeated>>
         ELSE IF value # 0
           THEN /\ myCurrentAxisDown' = [stick |-> stick, axis |-> axis, value |-> value]
                /\ myAxisRepeatTime' = myTime + kRepeatInitialDelay
                /\ dcPressed' = [dcPressed EXCEPT !["axis"] = myTime]
                /\ dcRepeated' = [dcRepeated EXCEPT !["axis"] = -1]
           ELSE UNCHANGED <<myCurrentAxisDown, myAxisRepeatTime, dcPressed, dcRepeated>>
  /\ dcOp' = [name |-> "handleJoyAxisEvent", stick |-> stick, axis |-> axis,
              value |-> value,
              sent |-> IF myDialogStack = 0 THEN <<>> ELSE <<"handleJoyAxis">>]
  /\ UNCHANGED <<myDialogStack, myTime, myCurrentMouseDown, myClickRepeatTime,
                 myCurrentButtonDown, myButtonRepeatTime, myCurrentHatDown,
                 myHatRepeatTime, mapVars, ehVars, eqVars, stickVars, detVars>>

\* DialogContainer::handleJoyHatEvent(stick, hat, value, button), 326-345
HandleJoyHatEventStep(stick, hat, value) ==
  /\ IF myDialogStack = 0
       THEN UNCHANGED <<myCurrentHatDown, myHatRepeatTime, dcPressed, dcRepeated>>
       ELSE IF myCurrentHatDown.stick = stick /\ value = "CENTER"
         THEN /\ myCurrentHatDown' = [myCurrentHatDown EXCEPT !.stick = -1, !.hat = -1]
              /\ UNCHANGED <<myHatRepeatTime, dcPressed, dcRepeated>>
         ELSE IF value # "CENTER"
           THEN /\ myCurrentHatDown' = [stick |-> stick, hat |-> hat, value |-> value]
                /\ myHatRepeatTime' = myTime + kRepeatInitialDelay
                /\ dcPressed' = [dcPressed EXCEPT !["hat"] = myTime]
                /\ dcRepeated' = [dcRepeated EXCEPT !["hat"] = -1]
           ELSE UNCHANGED <<myCurrentHatDown, myHatRepeatTime, dcPressed, dcRepeated>>
  /\ dcOp' = [name |-> "handleJoyHatEvent", stick |-> stick, hat |-> hat,
              value |-> value,
              sent |-> IF myDialogStack = 0 THEN <<>> ELSE <<"handleJoyHat">>]
  /\ UNCHANGED <<myDialogStack, myTime, myCurrentMouseDown, myClickRepeatTime,
                 myCurrentButtonDown, myButtonRepeatTime, myCurrentAxisDown,
                 myAxisRepeatTime, mapVars, ehVars, eqVars, stickVars, detVars>>

\* DialogContainer::addDialog(d), lines 120-134, for a dialog that fits
AddDialogStep ==
  /\ myDialogStack < MaxDialogs
  /\ myDialogStack' = myDialogStack + 1
  /\ dcOp' = [name |-> "addDialog", sent |-> <<>>]
  /\ UNCHANGED <<myTime, myCurrentMouseDown, myClickRepeatTime, myCurrentButtonDown,
                 myButtonRepeatTime, myCurrentAxisDown, myAxisRepeatTime,
                 myCurrentHatDown, myHatRepeatTime, dcPressed, dcRepeated,
                 mapVars, ehVars, eqVars, stickVars, detVars>>

\* DialogContainer::removeDialog(), lines 137-145
RemoveDialogStep ==
  /\ myDialogStack' = IF myDialogStack > 0 THEN myDialogStack - 1 ELSE 0
  /\ dcOp' = [name |-> "removeDialog", sent |-> <<>>]
  /\ UNCHANGED <<myTime, myCurrentMouseDown, myClickRepeatTime, myCurrentButtonDown,
                 myButtonRepeatTime, myCurrentAxisDown, myAxisRepeatTime,
                 myCurrentHatDown, myHatRepeatTime, dcPressed, dcRepeated,
                 mapVars, ehVars, eqVars, stickVars, detVars>>

\* DialogContainer::reStack(), lines 148-158: every dialog is closed, the
\* base dialog is opened, and reset() forgets what was held
ReStackStep ==
  /\ myDialogStack' = 1
  /\ myCurrentMouseDown' = [myCurrentMouseDown EXCEPT !.b = "NONE"]
  /\ myCurrentButtonDown' = NoButtonDown
  /\ myCurrentAxisDown' = [myCurrentAxisDown EXCEPT !.stick = -1, !.axis = -1]
  /\ myCurrentHatDown' = [myCurrentHatDown EXCEPT !.stick = -1, !.hat = -1]
  /\ dcOp' = [name |-> "reStack", sent |-> <<>>]
  /\ UNCHANGED <<myTime, myClickRepeatTime, myButtonRepeatTime, myAxisRepeatTime,
                 myHatRepeatTime, dcPressed, dcRepeated,
                 mapVars, ehVars, eqVars, stickVars, detVars>>

\* the times given to updateTime, in microseconds
Times == { 0, 400999, 401000, 451000, 452000 }

DcSticks == { 0, 1 }
DcButtons == { 0, 1 }

\* no detection is asked for
DetIdle ==
  /\ image = <<>>
  /\ port = "Left"
  /\ signature = <<>>
  /\ detOp = NoDetOp

\* The binding tables after construction: both empty, modifiers in use
InitMap ==
  /\ kind \in { "key", "joy" }
  /\ keyMap = <<>>
  /\ myModEnabled = TRUE
  /\ joyMap = <<>>
  /\ saved = <<>>
  /\ lastOp = NoOp
  /\ EhInit
  /\ EqIdle
  /\ StickIdle /\ DcInit
  /\ DetIdle

NextMap ==
  \/ \E a \in BindEvents, d \in KeyDescs, pos \in 1 .. (MaxEntries + 1) : KeyAddStep(a, d, pos)
  \/ \E d \in KeyDescs : KeyEraseStep(d)
  \/ \E a \in BindEvents, mode \in Modes : KeyEraseEventStep(a, mode)
  \/ \E mode \in Modes : KeyEraseModeStep(mode)
  \/ \E b \in BOOLEAN : EnableModStep(b)
  \/ \E a \in BindEvents, d \in JoyDescs, pos \in 1 .. (MaxEntries + 1) : JoyAddStep(a, d, pos)
  \/ \E d \in JoyDescs : JoyEraseStep(d)
  \/ \E a \in BindEvents, mode \in Modes : JoyEraseEventStep(a, mode)
  \/ \E mode \in Modes : JoyEraseModeStep(mode)

SpecMap == InitMap /\ [][NextMap]_vars

\* The dispatcher with the joystick directions of both ports
Init == MapIdle /\ EhInit /\ EqIdle /\ StickIdle /\ DcInit /\ DetIdle

DirectionEvents == { Ev(name) : name \in DirectionNames }

Next ==
  \/ \E event \in DirectionEvents, value \in { 0, 1 }, repeated \in BOOLEAN :
        HandleEventStep(event, value, repeated)
  \/ \E allow \in BOOLEAN : AllowAllDirectionsStep(allow)

Spec == Init /\ [][Next]_vars

\* The dispatcher with its modes
ListPauseFire ==
  IndexList(ActionIndex("StartPauseMode"), ActionIndex("PaddleZeroAnalog"), -1)

\* forwarded actions, and intercepted ones of every kind
ModeDispatch ==
  { Ev(name) : name \in { "PaddleZeroAnalog", "VolumeIncrease", "TakeSnapshot",
                           "StartPauseMode", "RewindPause", "Rewind1Menu",
                           "ExitMode" } }
    \cup { Combo1 }

ModeChanges ==
  { Ev(name) : name \in { "TogglePauseMode", "OptionsMenuMode", "CmdMenuMode",
                           "TimeMachineMode", "DebuggerMode", "PaddleZeroAnalog" } }

\* leaving the emulation with ExitMode is not followed
Followed(event, value, repeated) ==
  ~(EventName(event) = "ExitMode" /\ myState = "EMULATION" /\ value # 0 /\ ~repeated)

NextMode ==
  \/ \E event \in ModeDispatch, repeated \in BOOLEAN :
        \E value \in IF EventName(event) = "PaddleZeroAnalog" THEN { 0, 1, 2 } ELSE { 0, 1 } :
           Followed(event, value, repeated) /\ HandleEventStep(event, value, repeated)
  \/ \E type \in ModeChanges, env \in Envs : ChangeStateByEventStep(type, env)
  \/ \E state \in { "OPTIONSMENU", "CMDMENU" } : EnterMenuModeStep(state)
  \/ LeaveMenuModeStep
  \/ EnterTimeMachineMenuModeStep
  \/ \E env \in Envs : EnterDebugModeStep(env)
  \/ LeaveDebugModeStep
  \/ \E state \in { "EMULATION", "LAUNCHER" } : ResetStep(state)
  \/ ClearTimerStep
  \/ \E b \in BOOLEAN : SetMinimalUIStep(b)
  \/ SetComboListForEventStep(Combo1, ListPauseFire)

SpecMode == Init /\ [][NextMode]_vars

\* The registry of sticks and the lookups by stick id
StickDescs ==
  { JoyMappingAxis(kEmulationMode, 0, JoyAxis_NONE, JoyDir_NONE),
    JoyMappingAxis(kEmulationMode, JOY_CTRL_NONE, JoyAxis_X, JoyDir_POS),
    JoyMappingHat(kEmulationMode, JOY_CTRL_NONE, 0, JoyHat_UP) }

\* the devices that can be plugged in: those not plugged in now, and a null
\* pointer
Unplugged ==
  { name \in StickNames : \A id \in StickIds : mySticks[id].name # name }
    \cup { NullStick }

NextSticks ==
  \/ \E name \in { "Foo", NullStick } \cap Unplugged : AddPhysicalJoystickStep(name)
  \/ \E id \in StickIds : RemovePhysicalJoystickStep(id)
  \/ \E id \in StickIds, mapping \in StickDescs :
        AddJoyMappingStep(Ev("JoystickZeroFire"), id, mapping, TRUE)
  \/ \E mode \in Modes, stick \in StickIds, value \in { -1, 0, 1 } :
        EventForAxisStep(mode, stick, JoyAxis_X, value, JOY_CTRL_NONE)
  \/ \E mode \in Modes, stick \in StickIds, button \in Buttons :
        EventForButtonStep(mode, stick, button)
  \/ \E mode \in Modes, stick \in StickIds, hatDir \in { JoyHat_UP, JoyHat_LEFT } :
        EventForHatStep(mode, stick, 0, hatDir, JOY_CTRL_NONE)

SpecSticks == Init /\ [][NextSticks]_vars

\* The registry of sticks: devices come and go, bindings are made on them
RegDescs ==
  { JoyMappingAxis(kEmulationMode, 0, JoyAxis_NONE, JoyDir_NONE),
    JoyMappingHat(kMenuMode, JOY_CTRL_NONE, 0, JoyHat_UP) }

NextRegistry ==
  \/ \E name \in Unplugged : AddPhysicalJoystickStep(name)
  \/ \E id \in StickIds : RemovePhysicalJoystickStep(id)
  \/ \E name \in StickNames : RemovePhysicalJoystickFromDatabaseStep(name)
  \/ \E id \in StickIds, mapping \in RegDescs, updateMenus \in BOOLEAN :
        AddJoyMappingStep(Ev("JoystickZeroFire"), id, mapping, updateMenus)

SpecRegistry == Init /\ [][NextRegistry]_vars

\* Default mappings installed on sticks that carry bindings of the user
DefaultDescs ==
  { JoyMappingAxis(kEmulationMode, 0, JoyAxis_NONE, JoyDir_NONE),
    JoyMappingAxis(kEmulationMode, JOY_CTRL_NONE, JoyAxis_X, JoyDir_POS),
    JoyMappingHat(kMenuMode, JOY_CTRL_NONE, 0, JoyHat_UP) }

UserEvents == { Ev("JoystickZeroFire"), Ev("JoystickZeroUp") }

NextDefaults ==
  \/ \E name \in { "Foo", NullStick } \cap Unplugged : AddPhysicalJoystickStep(name)
  \/ \E id \in StickIds, event \in UserEvents, mapping \in DefaultDescs :
        AddJoyMappingStep(event, id, mapping, TRUE)
  \/ \E event \in { NoType, Ev("JoystickZeroFire") }, mode \in Modes :
        SetDefaultJoymapStep(event, mode)
  \/ \E controllerName \in ControllerNames, jack \in Jacks :
        DefineControllerMappingsStep(controllerName, jack)

SpecDefaults == Init /\ [][NextDefaults]_vars

\* The events of the mouse, the poll and the timeout of reset, next to
\* presses of the fire button and changes of mode
MouseChanges == { Ev("TogglePauseMode"), Ev("OptionsMenuMode") }

NextMouse ==
  \/ \E value \in { 0, 1 } : HandleEventStep(Ev("JoystickZeroFire"), value, FALSE)
  \/ \E type \in MouseChanges :
        ChangeStateByEventStep(type, Env(minimal_ui, TRUE, TRUE, TRUE))
  \/ LeaveMenuModeStep
  \/ \E state \in { "EMULATION", "LAUNCHER" } : ResetStep(state)
  \/ ClearTimerStep
  \/ \E xrel \in { -1, 2 } : HandleMouseMotionEventStep(xrel, 1)
  \/ \E b \in { "LEFT", "RIGHT", "MIDDLE" }, pressed \in BOOLEAN :
        HandleMouseButtonEventStep(b, pressed)
  \/ PollStep

SpecMouse == Init /\ [][NextMouse]_vars

\* searchForBytes on small images and signatures
InitSearch ==
  /\ MapIdle /\ EhInit /\ EqIdle /\ StickIdle /\ DcInit
  /\ image \in SeqsUpTo({ 0, 1 }, MaxImage)
  /\ signature \in SeqsUpTo({ 0, 1 }, MaxSig) \ { <<>> }
  /\ port = "Left"
  /\ detOp = NoDetOp

\* a plausible slip: the setting "rominfo" is not asked for
detectTypeAutoOnly(img, controller, p, rominfo) ==
  IF controller = "AUTO"
    THEN [type |-> autodetectPort(img, p), logged |-> FALSE]
    ELSE [type |-> controller, logged |-> FALSE]

\* detectType(image, size, controller, port, settings), lines 24-43; rominfo
\* is what settings.getBool("rominfo") answers; logged tells whether the
\* note "Controller auto-detection not consistent" is written
detectType(img, controller, p, rominfo) ==
  IF controller = "AUTO" \/ rominfo
    THEN LET detectedType == autodetectPort(img, p)
         IN [type |-> detectedType,
             logged |-> controller # "AUTO" /\ controller # detectedType]
    ELSE [type |-> controller, logged |-> FALSE]

\* detectType is applied to the image, a controller type and the port
DetectTypeStep(controller, rominfo) ==
  /\ detOp = NoDetOp
  /\ LET r == detectType(image, controller, port, rominfo)
     IN detOp' = [name |-> "detectType", type |-> r.type, found |-> FALSE,
                  controller |-> controller, rominfo |-> rominfo,
                  logged |-> r.logged]
  /\ UNCHANGED <<image, port, signature, mapVars, ehVars, eqVars, stickVars, dcVars>>

NextSearch == SearchForBytesStep

SpecSearch == InitSearch /\ [][NextSearch]_vars

\* the checks of ControllerDetector on images made of signatures
InitDetect ==
  /\ MapIdle /\ EhInit /\ EqIdle /\ StickIdle /\ DcInit
  /\ port \in { "Left", "Right" }
  /\ image \in Images(port)
  /\ signature = <<>>
  /\ detOp = NoDetOp

NextDetect == AutodetectPortStep \/ UsesKeyboardStep

SpecDetect == InitDetect /\ [][NextDetect]_vars

\* The dispatcher with directions and other forwarded actions
ForwardDispatch ==
  { Ev(name) : name \in { "JoystickZeroUp", "JoystickZeroDown", "JoystickZeroLeft",
                           "JoystickZeroRight", "JoystickZeroFire", "PaddleZeroAnalog" } }

NextForward ==
  \/ \E event \in ForwardDispatch, value \in { 0, 1 }, repeated \in BOOLEAN :
        HandleEventStep(event, value, repeated)
  \/ \E allow \in BOOLEAN : AllowAllDirectionsStep(allow)

SpecForward == Init /\ [][NextForward]_vars

\* The dispatcher with directions in combos, all directions never allowed
ListUpDown ==
  IndexList(ActionIndex("JoystickZeroUp"), ActionIndex("JoystickZeroDown"), -1)

ListLeftUp ==
  IndexList(ActionIndex("JoystickZeroLeft"), -1, ActionIndex("JoystickZeroUp"))

LatchDispatch ==
  { Ev(name) : name \in { "JoystickZeroUp", "JoystickZeroDown", "JoystickZeroLeft",
                           "JoystickZeroRight" } }
    \cup { Combo1, Combo1 + 1 }

NextLatch ==
  \/ \E event \in LatchDispatch, value \in { 0, 1 }, repeated \in BOOLEAN :
        HandleEventStep(event, value, repeated)
  \/ \E event \in { Combo1, Combo1 + 1 }, events \in { ListUpDown, ListLeftUp, ListNested } :
        SetComboListForEventStep(event, events)

SpecLatch == Init /\ [][NextLatch]_vars

\* The dispatcher with the console switches
SwitchDispatch == { Ev(name) : name \in ConsoleSwitchCases }

NextSwitch ==
  \/ \E event \in SwitchDispatch, value \in { 0, 1 }, repeated \in BOOLEAN, sw \in BOOLEAN :
        HandleSwitchEventStep(event, value, repeated, sw)
  \/ EnterMenuModeStep("CMDMENU")

SpecSwitch == Init /\ [][NextSwitch]_vars

\* The combo table saved and loaded again
StrNegative ==
  <<"1", "6", ":", "-", "7", ",">> \o IntToStr(Ev("JoystickZeroFire")) \o <<":", "1", "2">>

NextRound ==
  \/ \E event \in { Combo1, Combo16, Ev("JoystickZeroUp") },
        events \in { ListUpFire, ListNested, ListSelf } :
          SetComboListForEventStep(event, events)
  \/ \E list \in { StrOutOfRange, StrNegative, StrShortRows } :
        SetComboMapStep(list, Event_VERSION)
  \/ \E version \in { Event_VERSION, OlderVersion } : SetComboMapInNewRunStep(version)

SpecRound == Init /\ [][NextRound]_vars

\* The dispatcher with the combo table
ComboDispatch == { Ev("JoystickZeroFire"), Combo1, Combo1 + 1 }

\* combos are dispatched with an analog value too
DispatchValues(event) == IF IsCombo(event) THEN { 0, 1, 2 } ELSE { 0, 1 }

NextCombo ==
  \/ \E event \in ComboDispatch, repeated \in BOOLEAN :
        \E value \in DispatchValues(event) : HandleEventStep(event, value, repeated)
  \/ \E list \in { StrEmpty, StrWrongCount, StrShortRows, StrOutOfRange },
        version \in { Event_VERSION, OlderVersion } :
          SetComboMapStep(list, version)
  \/ \E event \in { Combo1, Combo1 + 1, Ev("JoystickZeroUp") },
        events \in { ListUpFire, ListNested, ListSelf } :
          SetComboListForEventStep(event, events)

SpecCombo == Init /\ [][NextCombo]_vars

\* The binding tables with modifiers always in use
NextMapEnabled ==
  \/ \E a \in BindEvents, d \in KeyDescs, pos \in 1 .. (MaxEntries + 1) : KeyAddStep(a, d, pos)
  \/ \E d \in KeyDescs : KeyEraseStep(d)
  \/ \E a \in BindEvents, mode \in Modes : KeyEraseEventStep(a, mode)
  \/ \E mode \in Modes : KeyEraseModeStep(mode)
  \/ \E a \in BindEvents, d \in JoyDescs, pos \in 1 .. (MaxEntries + 1) : JoyAddStep(a, d, pos)
  \/ \E d \in JoyDescs : JoyEraseStep(d)
  \/ \E a \in BindEvents, mode \in Modes : JoyEraseEventStep(a, mode)
  \/ \E mode \in Modes : JoyEraseModeStep(mode)

SpecMapEnabled == InitMap /\ [][NextMapEnabled]_vars

\* Saving and loading: any table add() can build is saved and loaded
InitSerial ==
  /\ \/ kind = "key" /\ keyMap \in KeyTables(MaxEntries) /\ joyMap = <<>>
     \/ kind = "joy" /\ joyMap \in JoyTables(MaxEntries) /\ keyMap = <<>>
  /\ myModEnabled = TRUE
  /\ saved = <<>>
  /\ lastOp = NoOp
  /\ EhInit
  /\ EqIdle
  /\ StickIdle /\ DcInit
  /\ DetIdle

NextSerial ==
  \/ \E mode \in Modes : KeySaveMappingStep(mode)
  \/ \E mode \in Modes : KeyEraseModeStep(mode)
  \/ \E mode \in Modes : KeyLoadMappingStep(mode)
  \/ \E mode \in Modes : JoySaveMappingStep(mode)
  \/ \E mode \in Modes : JoyEraseModeStep(mode)
  \/ \E mode \in Modes : JoyLoadMappingStep(mode)

SpecSerial == InitSerial /\ [][NextSerial]_vars

\* The comparison of two key descriptors
InitEq ==
  /\ MapIdle
  /\ EhInit
  /\ StickIdle /\ DcInit
  /\ DetIdle
  /\ eqA \in EqDescs
  /\ eqB \in EqDescs
  /\ eqResult = "unset"

NextEq == CompareStep

SpecEq == InitEq /\ [][NextEq]_vars

----------------------------------------------------------------------------
(* Properties of the dispatcher *)

\* the last operation dispatched event from outside
Dispatched(event) == ehOp.name = "handleEvent" /\ ehOp.event = event

\* C6: after a press of a direction is dispatched, the opposite direction is
\* 0 when all directions are not allowed, and is what it was before the call
\* when they are, whether or not the press is a repeat
C6_OppositeSuppression ==
  \A name \in DirectionNames :
    (Dispatched(Ev(name)) /\ ehOp.value # 0) =>
      /\ ehFault = "none"
      /\ IF myAllowAllDirectionsFlag
           THEN myEvent[Ev(Opposite(name))] = ehOp.before
           ELSE myEvent[Ev(Opposite(name))] = 0

\* a press of Right on port one cleared the latched Left
C6_Witness ==
  /\ Dispatched(Ev("JoystickOneRight"))
  /\ ehOp.value # 0
  /\ ehOp.before = 1
  /\ ~myAllowAllDirectionsFlag
  /\ myEvent[Ev("JoystickOneRight")] = 1
  /\ myEvent[Ev("JoystickOneLeft")] = 0

\* with all directions allowed, Up and Down of port zero are latched together
C6_WitnessBoth ==
  /\ Dispatched(Ev("JoystickZeroUp"))
  /\ myAllowAllDirectionsFlag
  /\ myEvent[Ev("JoystickZeroUp")] = 1
  /\ myEvent[Ev("JoystickZeroDown")] = 1

\* the calls handleEvent made directly, one level below the outer call
NestedCalls == SelectSeq(ehLog, LAMBDA c : c.depth = 2)

\* the calls a combo dispatch has to make: one per entry of its slot that is
\* not NoType, in slot order, with the pressed and repeated flags passed on
RECURSIVE SlotCalls(_, _, _, _)
SlotCalls(row, i, pressed, repeated) ==
  IF i > EVENTS_PER_COMBO THEN <<>>
  ELSE (IF row[i] # NoType THEN <<Call(row[i], Bit(pressed), repeated, 2)>> ELSE <<>>)
         \o SlotCalls(row, i + 1, pressed, repeated)

\* C7: a dispatched combo makes exactly the calls of its slot
C7_ComboExpansion ==
  \A combo \in 0 .. (COMBO_SIZE - 1) :
    Dispatched(Combo1 + combo) =>
      NestedCalls = SlotCalls(myComboTable[combo + 1], 1, ehOp.value # 0, ehOp.repeated)

\* the part of C7 that holds: a combo dispatch that returns has made exactly
\* the calls of its slot
C7_ComboExpansionReturned ==
  \A combo \in 0 .. (COMBO_SIZE - 1) :
    (Dispatched(Combo1 + combo) /\ ehFault = "none") =>
      NestedCalls = SlotCalls(myComboTable[combo + 1], 1, ehOp.value # 0, ehOp.repeated)

\* Combo1 held [Up, NoType, Fire, NoType x 5] and was dispatched with an
\* analog value: Up and Fire were called, in that order, as presses
C7_Witness ==
  /\ Dispatched(Combo1)
  /\ ehOp.value = 2
  /\ ehFault = "none"
  /\ NestedCalls = << Call(Ev("JoystickZeroUp"), 1, ehOp.repeated, 2),
                      Call(Ev("JoystickZeroFire"), 1, ehOp.repeated, 2) >>

\* C8: a dispatch returns, and no handleEvent call is nested deeper than the
\* calls a combo makes for its own entries
C8_ComboDepth ==
  /\ ehFault # "stack"
  /\ \A i \in 1 .. Len(ehLog) : ehLog[i].depth <= 2

\* C9: setComboMap with a version other than Event::VERSION leaves the
\* whole combo table NoType
C9_VersionMismatch ==
  (ehOp.name = "setComboMap" /\ ehOp.version # Event_VERSION) =>
    \A i \in 1 .. COMBO_SIZE, j \in 1 .. EVENTS_PER_COMBO : myComboTable[i][j] = NoType

\* the version differed, the string was a well-formed one with entries and
\* the table held entries before
C9_Witness ==
  /\ ehOp.name = "setComboMap"
  /\ ehOp.version # Event_VERSION
  /\ ehOp.list = StrShortRows
  /\ ehOp.before # EmptyComboTable
  /\ myComboTable = EmptyComboTable

----------------------------------------------------------------------------
(* Claims about ControllerDetector *)

\* the signature is in the image as a contiguous byte sequence, at an offset
\* i with 0 <= i <= imagesize - sigsize
Occurs(img, sig) ==
  \E i \in 0 .. (Len(img) - Len(sig)) :
     \A j \in 1 .. Len(sig) : img[i + j] = sig[j]

Searched == detOp.name = "searchForBytes"

\* C19: searchForBytes returns true exactly when the signature occurs in the
\* image at some offset from 0 to imagesize - sigsize, the end included, and
\* false when the image is shorter than the signature.
C19_FoundIffOccurs ==
  Searched => (detOp.found <=> Occurs(image, signature))

\* what holds of the code: a signature found occurs in the image, and one
\* that occurs before the last offset is found
C19_FoundOnlyIfOccurs ==
  Searched =>
     /\ detOp.found => Occurs(image, signature)
     /\ Occurs(SubSeq(image, 1, Len(image) - 1), signature) => detOp.found

Detected == detOp.name = "autodetectPort"

\* some signature of the table occurs in the image
AnyOccurs(img, sigs) == \E i \in 1 .. Len(sigs) : Occurs(img, sigs[i])

\* C15: for the right port, an image that contains a SaveKey signature is
\* classified SAVEKEY, whatever other signatures it contains.
C15_SaveKeyFirst ==
  (Detected /\ port = "Right" /\ AnyOccurs(image, SaveKeySigs)) =>
     detOp.type = "SAVEKEY"

\* what holds of the code: a SaveKey signature that searchForBytes finds
\* decides, whatever else is found
C15_SaveKeyFoundFirst ==
  (Detected /\ port = "Right" /\ AnyFound(image, SaveKeySigs)) =>
     detOp.type = "SAVEKEY"

\* a SaveKey signature and a signature of the button line were both found
C15_WitnessFound ==
  /\ Detected /\ port = "Right"
  /\ AnyFound(image, SaveKeySigs)
  /\ usesJoystickButton(image, port)
  /\ detOp.type = "SAVEKEY"

\* the kinds asked about once the button line is found, in the order of
\* lines 62-71, and the check of each
ButtonKinds == << "TRAKBALL", "ATARIMOUSE", "AMIGAMOUSE", "KEYBOARD", "GENESIS" >>

Check(type, img, p) ==
  CASE type = "TRAKBALL"   -> isProbablyTrakBall(img)
    [] type = "ATARIMOUSE" -> isProbablyAtariMouse(img)
    [] type = "AMIGAMOUSE" -> isProbablyAmigaMouse(img)
    [] type = "KEYBOARD"   -> usesKeyboard(img, p)
    [] type = "GENESIS"    -> usesGenesisButton(img, p)

ButtonBranch ==
  Detected /\ ~isProbablySaveKey(image, port) /\ usesJoystickButton(image, port)

\* C16: when no SaveKey signature matches and the button line of the port is
\* found accessed, the type returned is the first of TRAKBALL, ATARIMOUSE,
\* AMIGAMOUSE, KEYBOARD, GENESIS whose check matches, and JOYSTICK when none
\* of them matches.
C16_FirstMatchInOrder ==
  ButtonBranch =>
     /\ \A k \in 1 .. Len(ButtonKinds) :
           detOp.type = ButtonKinds[k] <=>
              /\ Check(ButtonKinds[k], image, port)
              /\ \A j \in 1 .. (k - 1) : ~Check(ButtonKinds[j], image, port)
     /\ detOp.type = "JOYSTICK" <=>
           \A k \in 1 .. Len(ButtonKinds) : ~Check(ButtonKinds[k], image, port)

\* two checks match, and the earlier of them decides
C16_Witness ==
  /\ ButtonBranch
  /\ isProbablyAtariMouse(image)
  /\ usesKeyboard(image, port)
  /\ ~isProbablyTrakBall(image)
  /\ detOp.type = "ATARIMOUSE"

\* the button line is found and no check matches
C16_WitnessJoystick ==
  /\ ButtonBranch
  /\ \A k \in 1 .. Len(ButtonKinds) : ~Check(ButtonKinds[k], image, port)
  /\ detOp.type = "JOYSTICK"

\* C17: an image with a paddle signature of the port, no SaveKey signature
\* and no signature of the button line is classified PADDLES, and an image
\* in which the button line is found accessed is never classified PADDLES.
C17_PaddlesWithoutButton ==
  Detected =>
     /\ (/\ AnyOccurs(image, PaddleSigs(port))
         /\ ~AnyOccurs(image, JoystickButtonSigs(port))
         /\ ~AnyOccurs(image, SaveKeySigs))
          => detOp.type = "PADDLES"
     /\ usesJoystickButton(image, port) => detOp.type # "PADDLES"

\* what holds of the code: PADDLES is returned exactly when searchForBytes
\* finds a paddle signature, no SaveKey signature and no signature of the
\* button line
C17_PaddlesIffReached ==
  Detected =>
     (detOp.type = "PADDLES" <=>
        /\ ~isProbablySaveKey(image, port)
        /\ ~usesJoystickButton(image, port)
        /\ usesPaddle(image, port))

\* the INPT register an address byte names: INPT0..INPT3 are at $08..$0b and
\* at $38..$3b
Names(byte, line) == byte = 8 + line \/ byte = 56 + line

\* some byte of the image names the input line
AccessesLine(img, line) == \E i \in 1 .. Len(img) : Names(img[i], line)

\* the two keyboard input lines of the port
FirstLine(p) == IF p = "Left" THEN 0 ELSE 2

SecondLine(p) == IF p = "Left" THEN 1 ELSE 3

\* a signature that is in the tables of both lines occurs in the image
IndexedAccess(img, p) ==
  \E i \in 1 .. Len(KeyboardSigs0(p)), j \in 1 .. Len(KeyboardSigs1(p)) :
     KeyboardSigs0(p)[i] = KeyboardSigs1(p)[j] /\ Occurs(img, KeyboardSigs0(p)[i])

KeyboardFound == detOp.name = "usesKeyboard" /\ detOp.found

C18_WitnessIndexed ==
  /\ KeyboardFound
  /\ IndexedAccess(image, port)
  /\ ~AccessesLine(image, SecondLine(port))

\* only one of the two lines is accessed, and no keyboard is found
C18_WitnessOneLine ==
  /\ detOp.name = "usesKeyboard" /\ ~detOp.found
  /\ AccessesLine(image, FirstLine(port))
  /\ ~AccessesLine(image, SecondLine(port))

ControllerTypes ==
  { "JOYSTICK", "SAVEKEY", "TRAKBALL", "ATARIMOUSE", "AMIGAMOUSE", "KEYBOARD",
    "GENESIS", "PADDLES" }

\* every signature of every check of the port
AllSigs(p) ==
  SaveKeySigs \o JoystickButtonSigs(p) \o TrakBallSigs \o AtariMouseSigs
    \o AmigaMouseSigs \o KeyboardSigs0(p) \o KeyboardSigs1(p) \o GenesisSigs(p)
    \o PaddleSigs(p)

\* C20: for every image and either port autodetectPort returns one of the
\* eight types, and JOYSTICK when no signature of any check occurs in the
\* image.
C20_Total ==
  Detected =>
     /\ detOp.type \in ControllerTypes
     /\ ~AnyOccurs(image, AllSigs(port)) => detOp.type = "JOYSTICK"

\* the empty image, and an image of one byte
C20_Witness ==
  /\ Detected
  /\ Len(image) <= 1
  /\ detOp.type = "JOYSTICK"

\* an image that ends with its only signature
C20_WitnessEnd ==
  /\ Detected
  /\ Len(image) > 1
  /\ AnyOccurs(image, AllSigs(port))
  /\ detOp.type = "JOYSTICK"

----------------------------------------------------------------------------
(* Claims about the lookups by stick *)

Lookups == { "eventForAxis", "eventForButton", "eventForHat" }

\* C14: a lookup for a stick id that is not available returns NoType and
\* causes no fault.
C14_UnconnectedNoType ==
  (stickOp.name \in Lookups /\ ~stickOp.connected) =>
     (stickOp.result = NoType /\ stickOp.fault = "none")

\* a lookup for an available stick returns what the stick's JoyMap holds
C14_ConnectedLookup ==
  (stickOp.name \in Lookups /\ stickOp.connected) => stickOp.fault = "none"

----------------------------------------------------------------------------
(* Claims about the registry of sticks *)

\* C21: a device added under a name whose bindings were saved when a device
\* of that name was removed by id carries exactly the saved bindings, and the
\* database keeps the entry of every name from its first add until
\* remove(name) purges it
C21_ReconnectRestores ==
  /\ (stickOp.name = "add" /\ stickOp.connected /\ regSaved[stickOp.dev].saved) =>
       AllBindings(mySticks[stickOp.stick].joyMap) = regSaved[stickOp.dev].bindings
  /\ \A name \in StickNames : regSaved[name].remembered => myDatabase[name].known

\* "Foo" was removed with a binding in each mode and is plugged in again
C21_Witness ==
  /\ stickOp.name = "add"
  /\ stickOp.connected
  /\ stickOp.dev = "Foo"
  /\ regSaved["Foo"].saved
  /\ Cardinality(regSaved["Foo"].bindings) = 2
  /\ Len(mySticks[stickOp.stick].joyMap) = 2

\* "Foo" is unplugged and "Bar" plugged in: the entry of "Foo" is still there
C21_WitnessUnplugged ==
  /\ regSaved["Foo"].saved
  /\ myDatabase["Foo"].known
  /\ myDatabase["Foo"].joy = -1
  /\ myDatabase["Bar"].joy = 0

\* the sticks as the last installation of defaults found them
DefaultsInstalled == stickOp.name \in { "setDefaultJoymap", "defineControllerMappings" }

BoundIn(map, event, mode) == \E i \in 1 .. Len(map) : map[i].e = event /\ map[i].m.mode = mode

CurrentKeys ==
  [mode \in Modes |->
     [i \in 1 .. Len(ActionList(mode)) |->
        ActionKey(keyMap, mySticks, ActionList(mode)[i], mode)]]

\* C23: after a device was added or removed, the key string of every action
\* of both lists is the one computed from the sticks then available
C23_AddRemoveRecompute ==
  (stickOp.name \in { "add", "remove" } /\ stickOp.connected) => actionKeys = CurrentKeys

\* what holds of the code: the strings are recomputed after an add
C23_AddRecomputes ==
  (stickOp.name = "add" /\ stickOp.connected) => actionKeys = CurrentKeys

----------------------------------------------------------------------------
(* Claims about the dispatcher modes *)

ModeOps ==
  { "changeStateByEvent", "enterMenuMode", "leaveMenuMode",
    "enterTimeMachineMenuMode", "enterDebugMode", "leaveDebugMode", "reset" }

\* the actions handleEvent handles itself
InterceptedNames ==
  { "Fry", "VolumeDecrease", "VolumeIncrease", "SoundToggle",
    "RewindPause", "UnwindPause", "ExitMode", "StartPauseMode" }
    \cup SubsystemCases \cup WindMenuCases

\* the actions handleEvent passes to the emulation core
Forwarded(event) ==
  /\ event \in EventIds
  /\ EventName(event) \notin InterceptedNames \cup CasesNotFollowed
                               \cup ConsoleSwitchCases \cup { "NoType" }
  /\ ~IsCombo(event)

\* C11: every setState call, whichever operation makes it, returns with the
\* value of every event zero, and so does every mode operation and every
\* dispatch of a single intercepted action that made one.
C11_TransitionClears ==
  /\ \A i \in 1 .. Len(ehTrans) : ehTrans[i].latched = {}
  /\ (/\ ehTrans # <<>>
      /\ \/ ehOp.name \in ModeOps
         \/ ehOp.name = "handleEvent" /\ ~IsCombo(ehOp.event))
       => Latched(myEvent) = {}

\* a mode operation changed the mode while an event was latched
C11_Witness ==
  /\ ehOp.name = "changeStateByEvent"
  /\ ehTrans # <<>>
  /\ myState # ehOp.before
  /\ Latched(ehBefore) # {}
  /\ Latched(myEvent) = {}

\* a dispatch changed the mode while an event was latched
C11_WitnessDispatch ==
  /\ ehOp.name = "handleEvent"
  /\ ehTrans # <<>>
  /\ Latched(ehBefore) # {}
  /\ Latched(myEvent) = {}

\* C12: a dispatch of a forwarded action that is not a repeat stores the
\* value in the entry of the action; a repeat leaves the entry as it was.
C12_ForwardedStored ==
  \A event \in EventIds :
    (Dispatched(event) /\ Forwarded(event)) =>
       IF ehOp.repeated
         THEN myEvent[event] = ehBefore[event]
         ELSE myEvent[event] = ehOp.value

\* an analog value was stored
C12_Witness ==
  /\ Dispatched(Ev("PaddleZeroAnalog"))
  /\ ~ehOp.repeated
  /\ ehOp.value = 2
  /\ ehBefore[Ev("PaddleZeroAnalog")] # 2
  /\ myEvent[Ev("PaddleZeroAnalog")] = 2

\* a repeat of another value was not stored
C12_WitnessRepeated ==
  /\ Dispatched(Ev("PaddleZeroAnalog"))
  /\ ehOp.repeated
  /\ ehOp.value = 2
  /\ myEvent[Ev("PaddleZeroAnalog")] = 1

InterceptedDispatched ==
  /\ ehOp.name = "handleEvent"
  /\ EventName(ehOp.event) \in InterceptedNames

\* C13 as stated: a dispatch of an intercepted action leaves every entry of
\* the event table as it was.
C13_InterceptedKeepsTable ==
  InterceptedDispatched => myEvent = ehBefore

\* C13: a dispatch of an intercepted action that changes no mode leaves every
\* entry of the event table as it was, and one that changes the mode leaves
\* every entry zero.
C13_InterceptedKeepsOrClears ==
  InterceptedDispatched =>
     IF ehTrans = <<>> THEN myEvent = ehBefore ELSE Latched(myEvent) = {}

\* an intercepted action was dispatched with an event latched, and it stayed
C13_Witness ==
  /\ InterceptedDispatched
  /\ ehTrans = <<>>
  /\ Latched(ehBefore) # {}
  /\ myEvent = ehBefore

\* an intercepted action cleared a latched event with the mode change
C13_WitnessCleared ==
  /\ InterceptedDispatched
  /\ ehTrans # <<>>
  /\ Latched(ehBefore) # {}
  /\ Latched(myEvent) = {}

\* C24: the overlay is determined by the mode: none in EMULATION, PAUSE and
\* NONE, and the dialog of the mode in the five modes that have one
C24_OverlayByMode ==
  /\ myState \in { "EMULATION", "PAUSE", "NONE" } => myOverlay = "none"
  /\ myState = "OPTIONSMENU" => myOverlay = "menu"
  /\ myState = "CMDMENU" => myOverlay = "commandMenu"
  /\ myState = "TIMEMACHINE" => myOverlay = "timeMachine"
  /\ myState = "LAUNCHER" => myOverlay = "launcher"
  /\ myState = "DEBUGGER" => myOverlay = "debugger"

\* the command menu was left for the emulation: no overlay any more
C24_Witness ==
  /\ ehOp.name = "changeStateByEvent"
  /\ ehOp.before = "CMDMENU"
  /\ myState = "EMULATION"
  /\ myOverlay = "none"

\* the debugger was entered from the time machine
C24_WitnessDebugger ==
  /\ ehOp.name \in { "changeStateByEvent", "enterDebugMode" }
  /\ ehOp.before = "TIMEMACHINE"
  /\ myState = "DEBUGGER"
  /\ myOverlay = "debugger"

\* C25: after a mode operation that made a transition, the sound was last
\* asked to be unmuted when the mode is EMULATION, and to be muted when it is
\* PAUSE, OPTIONSMENU, CMDMENU, TIMEMACHINE or DEBUGGER
C25_MuteByMode ==
  (/\ ehOp.name \in { "handleEvent", "changeStateByEvent", "enterMenuMode",
                      "leaveMenuMode", "enterTimeMachineMenuMode", "enterDebugMode",
                      "leaveDebugMode" }
   /\ ehTrans # <<>>) =>
    /\ myState = "EMULATION" => ~muted
    /\ myState \in { "PAUSE", "OPTIONSMENU", "CMDMENU", "TIMEMACHINE", "DEBUGGER" } => muted

\* the options menu was entered from the emulation, where the sound was on
C25_Witness ==
  /\ ehOp.name = "changeStateByEvent"
  /\ ehOp.before = "EMULATION"
  /\ ehTrans # <<>>
  /\ myState = "OPTIONSMENU"
  /\ muted

\* the debugger could not be entered from the pause: the emulation goes on
C25_WitnessFailed ==
  /\ ehOp.name = "enterDebugMode"
  /\ ehOp.before = "PAUSE"
  /\ Len(ehTrans) = 2
  /\ myState = "EMULATION"
  /\ ~muted

\* a press of ExitMode that is not a repeat was dispatched on its own
ExitPressed ==
  /\ ehOp.name = "handleEvent"
  /\ ehOp.event = Ev("ExitMode")
  /\ ehOp.value # 0
  /\ ~ehOp.repeated

\* C27: a non-repeated press of ExitMode in PAUSE, CMDMENU or TIMEMACHINE
\* ends in EMULATION, whatever the setting minimal_ui is
C27_ExitModeLeaves ==
  (ExitPressed /\ ehMode \in { "PAUSE", "CMDMENU", "TIMEMACHINE" }) =>
    myState = "EMULATION"

\* what holds of the code: it does, but for the command menu under minimal_ui
C27_ExitModeLeavesUnlessMinimal ==
  (ExitPressed /\ ehMode \in { "PAUSE", "CMDMENU", "TIMEMACHINE" }) =>
    IF ehMode = "CMDMENU" /\ minimal_ui
      THEN myState = "CMDMENU" /\ ehTrans = <<>>
      ELSE myState = "EMULATION"

\* the last operation was changeStateByEvent(TogglePauseMode)
TogglePauseCalled ==
  /\ ehOp.name = "changeStateByEvent"
  /\ ehOp.event = Ev("TogglePauseMode")

\* C28: changeStateByEvent(TogglePauseMode) takes EMULATION to PAUSE and
\* PAUSE to EMULATION and returns true, so that two calls in a row restore
\* the mode; in every other mode it returns false and leaves the mode, the
\* overlay and the event table as they were
C28_TogglePause ==
  [][TogglePauseCalled' =>
       /\ CASE myState = "EMULATION" -> myState' = "PAUSE" /\ ehHandled'
            [] myState = "PAUSE" -> myState' = "EMULATION" /\ ehHandled'
            [] OTHER -> /\ ~ehHandled'
                        /\ myState' = myState
                        /\ myOverlay' = myOverlay
                        /\ myEvent' = myEvent
       /\ (TogglePauseCalled /\ ehHandled /\ ehHandled') => myState' = ehMode]_vars

\* two calls in a row went from EMULATION to PAUSE and back
C28_Witness ==
  /\ TogglePauseCalled
  /\ ehHandled
  /\ ehMode = "PAUSE"
  /\ myState = "EMULATION"
  /\ ehTrans # <<>>
  /\ ehTrans[1].to = "EMULATION"

\* a call in a menu returned false
C28_WitnessRefused ==
  /\ TogglePauseCalled
  /\ ~ehHandled
  /\ myState = "CMDMENU"
  /\ myOverlay = Overlay("CMDMENU")
  /\ ehTrans = <<>>

\* the modes with a dialog over the emulation, and the modes of play
MenuModes == { "OPTIONSMENU", "CMDMENU", "TIMEMACHINE" }

PlayModes == { "EMULATION", "PAUSE" }

\* the mode the i-th setState of the last operation found
ModeFound(i) == IF i = 1 THEN ehMode ELSE ehTrans[i - 1].to

\* the setState calls of the last dispatch or changeStateByEvent that entered
\* a menu mode from a mode that is neither that mode nor a mode of play
EnteredFromElsewhere ==
  IF ehOp.name \in { "handleEvent", "changeStateByEvent" }
    THEN { i \in 1 .. Len(ehTrans) :
             /\ ehTrans[i].to \in MenuModes
             /\ ModeFound(i) # ehTrans[i].to
             /\ ModeFound(i) \notin PlayModes }
    ELSE {}

\* C29: handleEvent and changeStateByEvent enter OPTIONSMENU, CMDMENU and
\* TIMEMACHINE from EMULATION or PAUSE only
C29_MenusFromPlay == EnteredFromElsewhere = {}

\* what holds of the code: they do, except that a dispatched press of one of
\* the six wind actions enters TIMEMACHINE from whatever mode it finds
C29_MenusFromPlayOrWind ==
  \A i \in EnteredFromElsewhere :
    /\ ehOp.name = "handleEvent"
    /\ EventName(ehOp.event) \in WindMenuCases
    /\ ehOp.value # 0
    /\ ehTrans[i].to = "TIMEMACHINE"

\* changeStateByEvent entered a menu, and a wind entered the time machine
\* from the launcher
C29_Witness ==
  /\ ehOp.name = "changeStateByEvent"
  /\ ehOp.event = Ev("CmdMenuMode")
  /\ ehMode = "PAUSE"
  /\ myState = "CMDMENU"

C29_WitnessWind ==
  /\ Dispatched(Ev("Rewind1Menu"))
  /\ ehMode = "LAUNCHER"
  /\ myState = "TIMEMACHINE"

\* a request for a menu was refused in a mode that is not a mode of play
C29_WitnessRefused ==
  /\ ehOp.name = "changeStateByEvent"
  /\ ehOp.event = Ev("OptionsMenuMode")
  /\ ehMode = "DEBUGGER"
  /\ myState = "DEBUGGER"
  /\ ~ehHandled

\* C30: a dispatch of a release (value 0) leaves the mode as it was, for
\* every action and every mode
C30_ReleaseKeepsMode ==
  (ehOp.name = "handleEvent" /\ ehOp.value = 0) => myState = ehMode

\* what holds of the code: it does, except that a release of RewindPause or
\* UnwindPause dispatched in EMULATION pauses
C30_ReleaseKeepsModeButWindPause ==
  (ehOp.name = "handleEvent" /\ ehOp.value = 0) =>
    IF EventName(ehOp.event) \in { "RewindPause", "UnwindPause" } /\ ehMode = "EMULATION"
      THEN myState = "PAUSE"
      ELSE myState = ehMode /\ ehTrans = <<>>

\* a release of an action that changes the mode on a press was dispatched
C30_WitnessRelease ==
  /\ Dispatched(Ev("StartPauseMode"))
  /\ ehOp.value = 0
  /\ ehMode = "EMULATION"
  /\ myState = "EMULATION"

\* the operations that run inside a dispatch, a poll or a change of mode
SyncOps ==
  { "handleEvent", "handleMouseMotionEvent", "handleMouseButtonEvent", "poll",
    "changeStateByEvent", "enterMenuMode", "leaveMenuMode",
    "enterTimeMachineMenuMode", "enterDebugMode", "leaveDebugMode", "reset" }

\* C26: the event table is changed only by a dispatch, a poll or a change of
\* mode: no step of a timer changes a value
C26_OnlySynchronous == [][myEvent' # myEvent => ehOp'.name \in SyncOps]_vars

\* what holds of the code: besides those operations only the timeout that
\* reset(EMULATION) set changes the table; it fires once and clears every value
C26_OnlySynchronousOrResetTimeout ==
  [][myEvent' # myEvent =>
       \/ ehOp'.name \in SyncOps
       \/ /\ ehOp'.name = "timeout"
          /\ clearTimer /\ ~clearTimer'
          /\ Latched(myEvent') = {}]_vars

\* the timeout found the fire button and a mouse button latched
C26_Witness ==
  /\ ehOp.name = "timeout"
  /\ ehBefore[Ev("JoystickZeroFire")] = 1
  /\ ehBefore[Ev("MouseButtonLeftValue")] = 1
  /\ Latched(myEvent) = {}

----------------------------------------------------------------------------
(* Properties of the comparison and of saving and loading *)

HasModifier(m, G) == (m.mod \cap G) # {}

Compared == eqResult # "unset"

C4_EqualIffSameBits ==
  Compared =>
    (eqResult = "equal" <=>
       /\ eqA.mode = eqB.mode
       /\ eqA.key = eqB.key
       /\ \A G \in ModGroups : (eqA.mod \cap G) = (eqB.mod \cap G))

C10_RoundTrip ==
  (lastOp.name = "load" /\ lastOp.n = 0 /\ saved.mode = lastOp.d.mode) =>
    saved.bindings =
      (IF kind = "key" THEN KeyBindings(keyMap, saved.mode)
                       ELSE JoyBindings(joyMap, saved.mode))

\* two saved bindings of one key, told apart by the Shift bit, were loaded
\* into a table cleared of the mode
C10_Witness ==
  /\ kind = "key"
  /\ lastOp.name = "load"
  /\ lastOp.n = 0
  /\ saved.mode = lastOp.d.mode
  /\ Cardinality(saved.bindings) = 2
  /\ Len(NodesOfMode(keyMap, saved.mode)) = 2


----------------------------------------------------------------------------
(* Claims about repeats, latched directions and console switches *)

\* a forwarded action was dispatched as a repeat
RepeatDispatched ==
  /\ ehOp.name = "handleEvent"
  /\ Forwarded(ehOp.event)
  /\ ehOp.repeated

\* C31: a dispatch of a forwarded action with the repeated flag set changes
\* no entry of the event table, for the directions as well and for both
\* values of the flag that allows all directions
C31_RepeatChangesNothing == RepeatDispatched => myEvent = ehBefore

\* what holds of the code: a repeat never stores its value, and the one entry
\* it can change is the opposite of a pressed direction, which is set to 0
\* when all directions are not allowed
C31_RepeatClearsOppositeOnly ==
  RepeatDispatched =>
    \A e \in EventIds :
      myEvent[e] =
        IF /\ EventName(ehOp.event) \in DirectionNames
           /\ ehOp.value # 0
           /\ ~myAllowAllDirectionsFlag
           /\ e = Ev(Opposite(EventName(ehOp.event)))
          THEN 0
          ELSE ehBefore[e]

\* a repeat of Up with Down latched cleared Down and did not store Up
C31_Witness ==
  /\ RepeatDispatched
  /\ ehOp.event = Ev("JoystickZeroUp")
  /\ ehOp.value = 1
  /\ ~myAllowAllDirectionsFlag
  /\ ehBefore[Ev("JoystickZeroDown")] = 1
  /\ myEvent[Ev("JoystickZeroDown")] = 0
  /\ myEvent[Ev("JoystickZeroUp")] = 0

\* a repeat of a press of another action left a released entry released
C31_WitnessOther ==
  /\ RepeatDispatched
  /\ ehOp.event = Ev("JoystickZeroFire")
  /\ ehOp.value = 1
  /\ myEvent[Ev("JoystickZeroFire")] = 0
  /\ Latched(myEvent) # {}


\* both directions of a pair are latched
BothLatched(a, b) == myEvent[Ev(a)] # 0 /\ myEvent[Ev(b)] # 0

\* C32: while all directions are never allowed, at the end of a dispatch no
\* port has Up and Down both latched, nor Left and Right, after any sequence
\* of presses, releases, repeats and combos from a cleared table
C32_NoOppositesLatched ==
  (ehFault = "none" /\ ~myAllowAllDirectionsFlag) =>
    \A name \in DirectionNames : ~BothLatched(name, Opposite(name))

\* a combo of Up and Down was expanded while Up was latched, and left Down
\* latched alone
C32_Witness ==
  /\ ehOp.name = "handleEvent"
  /\ IsCombo(ehOp.event)
  /\ ehOp.value # 0
  /\ ~ehOp.repeated
  /\ Len(ehLog) >= 2
  /\ ehBefore[Ev("JoystickZeroUp")] # 0
  /\ myEvent[Ev("JoystickZeroDown")] # 0
  /\ myEvent[Ev("JoystickZeroUp")] = 0


\* C33: after any sequence of dispatches from a cleared table the latches of
\* a pair of console switches are never both 1: ConsoleColor and
\* ConsoleBlackWhite, ConsoleLeftDiffA and ConsoleLeftDiffB, ConsoleRightDiffA
\* and ConsoleRightDiffB
C33_SwitchPairsExclusive ==
  /\ ~(myEvent[Ev("ConsoleColor")] = 1 /\ myEvent[Ev("ConsoleBlackWhite")] = 1)
  /\ ~(myEvent[Ev("ConsoleLeftDiffA")] = 1 /\ myEvent[Ev("ConsoleLeftDiffB")] = 1)
  /\ ~(myEvent[Ev("ConsoleRightDiffA")] = 1 /\ myEvent[Ev("ConsoleRightDiffB")] = 1)

\* a toggle moved a pair from one switch to the other
C33_Witness ==
  /\ Dispatched(Ev("ConsoleLeftDiffToggle"))
  /\ ehBefore[Ev("ConsoleLeftDiffA")] = 1
  /\ myEvent[Ev("ConsoleLeftDiffA")] = 0
  /\ myEvent[Ev("ConsoleLeftDiffB")] = 1
  /\ myEvent[Ev("ConsoleColor")] = 1


----------------------------------------------------------------------------
(* Claims about the combo string *)

\* the combo count setComboMap reads from the string: atoi of the first
\* word, which is 0 for a string without words
CountRead(list) ==
  LET keys == Words(Replace(list, ":", " "), 1, <<>>)
  IN IF keys = <<>> THEN 0 ELSE Atoi(Head(keys))

\* C34: when the version matches and the string is empty or its first token
\* is not the combo count 16, setComboMap leaves every entry of the 16 x 8
\* table NoType
C34_WrongCountInvalid ==
  (/\ ehOp.name = "setComboMap"
   /\ ehOp.version = Event_VERSION
   /\ (ehOp.list = <<>> \/ CountRead(ehOp.list) # COMBO_SIZE))
    => \A i \in 1 .. COMBO_SIZE, j \in 1 .. EVENTS_PER_COMBO : myComboTable[i][j] = NoType

\* a string with count 15 and an entry was loaded over a table with entries
C34_Witness ==
  /\ ehOp.name = "setComboMap"
  /\ ehOp.version = Event_VERSION
  /\ ehOp.list = StrWrongCount
  /\ ehOp.before # EmptyComboTable
  /\ myComboTable = EmptyComboTable

\* the empty string was loaded over a table with entries
C34_WitnessEmpty ==
  /\ ehOp.name = "setComboMap"
  /\ ehOp.version = Event_VERSION
  /\ ehOp.list = <<>>
  /\ ehOp.before # EmptyComboTable
  /\ myComboTable = EmptyComboTable


\* a new run loaded, with the matching version, the string the last run saved
LoadedSaved ==
  /\ ehOp.name = "newRun"
  /\ ehOp.version = Event_VERSION
  /\ ehOp.list = saveComboMapping(ehOp.before)

\* C35: the string saveComboMapping writes for a table, loaded by setComboMap
\* with the matching version, gives the same 16 x 8 table
C35_ComboRoundTrip == LoadedSaved => myComboTable = ehOp.before

\* a table with entries in the first and the last slot, one of them no
\* event of the table, came back in a new run
C35_Witness ==
  /\ LoadedSaved
  /\ ehOp.before[1][1] = 999
  /\ ehOp.before[COMBO_SIZE][3] = Ev("JoystickZeroFire")
  /\ myComboTable = ehOp.before



----------------------------------------------------------------------------
(* Claims about the descriptor as a key of the hash map *)

\* C36: operator== with KeyHash is a valid key of a hash map over all
\* modifier masks: the equality is reflexive, symmetric and transitive, and
\* descriptors that compare equal have the same hash
C36_ValidHashKey ==
  Compared =>
    /\ MappingEq(eqA, eqA) /\ MappingEq(eqB, eqB)
    /\ (eqResult = "equal" <=> MappingEq(eqB, eqA))
    /\ \A c \in EqDescs : (eqResult = "equal" /\ MappingEq(eqB, c)) => MappingEq(eqA, c)
    /\ eqResult = "equal" => KeyHash(eqA) = KeyHash(eqB)

\* what holds of the code: all of it but transitivity
C36_ValidButTransitive ==
  Compared =>
    /\ MappingEq(eqA, eqA) /\ MappingEq(eqB, eqB)
    /\ (eqResult = "equal" <=> MappingEq(eqB, eqA))
    /\ eqResult = "equal" => KeyHash(eqA) = KeyHash(eqB)

\* left Shift equals both Shifts, which equal right Shift, and left and
\* right Shift are unequal
C36_WitnessChain ==
  /\ eqResult = "equal"
  /\ eqA.mod = { "LSHIFT" }
  /\ eqB.mod = KBDM_SHIFT
  /\ MappingEq(eqB, Mapping(eqA.mode, eqA.key, { "RSHIFT" }))
  /\ ~MappingEq(eqA, Mapping(eqA.mode, eqA.key, { "RSHIFT" }))

----------------------------------------------------------------------------
(* Claims about continuous events in a dialog container *)

\* a container that is given dialogs, time and joystick buttons
NextDialog ==
  \/ AddDialogStep
  \/ RemoveDialogStep
  \/ \E time \in Times : UpdateTimeStep(time)
  \/ \E stick \in DcSticks, button \in DcButtons, pressed \in BOOLEAN :
       HandleJoyBtnEventStep(stick, button, pressed)

SpecDialog == Init /\ [][NextDialog]_vars

\* a container that is given time and one input of each kind
NextRepeat ==
  \/ AddDialogStep
  \/ ReStackStep
  \/ \E time \in Times : UpdateTimeStep(time)
  \/ \E pressed \in BOOLEAN : HandleJoyBtnEventStep(0, 0, pressed)
  \/ \E value \in { 0, 1 } : HandleJoyAxisEventStep(0, 0, value)
  \/ \E value \in { "CENTER", "UP" } : HandleJoyHatEventStep(0, 0, value)

SpecRepeat == Init /\ [][NextRepeat]_vars


\* C37: while a button of a stick is held for repeat, the release of another
\* button of that stick leaves it held, and its own release stops the repeat
C37_OnlyHeldButtonStops ==
  (/\ dcOp.name = "handleJoyBtnEvent" /\ ~dcOp.pressed
   /\ myDialogStack > 0
   /\ dcOp.down.stick = dcOp.stick)
    => IF dcOp.button = dcOp.down.button
         THEN myCurrentButtonDown.stick = -1
         ELSE myCurrentButtonDown = dcOp.down

\* the release of another button of the stick has stopped the repeat
C37_OtherButtonStops ==
  /\ dcOp.name = "handleJoyBtnEvent" /\ ~dcOp.pressed
  /\ myDialogStack > 0
  /\ dcOp.down.stick = dcOp.stick /\ dcOp.down.button # dcOp.button
  /\ myCurrentButtonDown.stick = -1


\* the input of a kind that the container holds for repeat
Held(k) ==
  CASE k = "button" -> myCurrentButtonDown.stick # -1
    [] k = "axis" -> myCurrentAxisDown.stick # -1
    [] k = "hat" -> myCurrentHatDown.stick # -1

\* how many repeats of a kind the last updateTime sent to the dialog
Repeats(k) == Cardinality({ i \in 1 .. Len(dcOp.sent) : dcOp.sent[i] = k })

\* C38: after a button, axis or hat press recorded at container time t,
\* updateTime sends no repeat while its time is <= t + 400 ms, sends one at
\* the first call with a time > t + 400, and afterwards at most one per call,
\* consecutive repeats more than 50 ms apart, while the input is held and a
\* dialog is on the stack; nothing else than the time given decides it
C38_RepeatTiming ==
  dcOp.name = "updateTime" =>
    \A k \in InputKinds :
      /\ Repeats(k) <= 1
      /\ Repeats(k) = 1 => /\ Held(k) /\ myDialogStack > 0
                            /\ myTime = dcOp.time \div 1000
                            /\ myTime > dcPressed[k] + 400
      /\ (/\ Held(k) /\ myDialogStack > 0 /\ dcOp.repeated[k] = -1
          /\ dcOp.time \div 1000 > dcPressed[k] + 400) => Repeats(k) = 1
      /\ (Repeats(k) = 1 /\ dcOp.repeated[k] # -1) => myTime - dcOp.repeated[k] > 50

\* a button pressed at time 0 has been repeated at 401 ms and again at 452 ms
C38_Witness ==
  /\ dcOp.name = "updateTime" /\ dcOp.time = 452000
  /\ Repeats("button") = 1
  /\ dcPressed["button"] = 0 /\ dcOp.repeated["button"] = 401

\* an axis pushed at time 0 and held is not repeated at 400 ms
C38_WitnessEarly ==
  /\ dcOp.name = "updateTime" /\ dcOp.time = 400999
  /\ myDialogStack > 0 /\ Held("axis") /\ dcPressed["axis"] = 0
  /\ Repeats("axis") = 0

\* a hat held since time 0 and repeated at 401 ms is not repeated at 451 ms
C38_WitnessSustain ==
  /\ dcOp.name = "updateTime" /\ dcOp.time = 451000
  /\ myDialogStack > 0 /\ Held("hat") /\ dcPressed["hat"] = 0
  /\ dcOp.repeated["hat"] = 401 /\ Repeats("hat") = 0


----------------------------------------------------------------------------
(* Claims about the motion of the mouse *)

\* the last operation was a motion of the mouse received in EMULATION
MotionInEmulation ==
  ehOp.name = "handleMouseMotionEvent" /\ ehMode = "EMULATION"

\* C39: the first mouse motion received in EMULATION after a mode transition
\* writes neither MouseAxisXValue nor MouseAxisYValue, and every later one
\* before the next transition writes the relative motion into the table
C39_FirstMotionSkipped ==
  MotionInEmulation =>
    IF ehMotions = 1
      THEN myEvent = ehBefore
      ELSE /\ myEvent[Ev("MouseAxisXValue")] = ehOp.value
           /\ myEvent[Ev("MouseAxisYValue")] = 1
           /\ \A e \in EventIds \ { Ev("MouseAxisXValue"), Ev("MouseAxisYValue") } :
                 myEvent[e] = ehBefore[e]

\* the first motion after the transition has left the axes at zero
C39_Witness ==
  /\ MotionInEmulation /\ ehMotions = 1 /\ ehOp.value = 2
  /\ myEvent[Ev("MouseAxisXValue")] = 0 /\ myEvent[Ev("MouseAxisYValue")] = 0

\* the third motion after the transition has been written over the second
C39_WitnessLater ==
  /\ MotionInEmulation /\ ehMotions = 3 /\ ehOp.value = 2
  /\ ehBefore[Ev("MouseAxisXValue")] = -1
  /\ myEvent[Ev("MouseAxisXValue")] = 2 /\ myEvent[Ev("MouseAxisYValue")] = 1


----------------------------------------------------------------------------
(* Claims about the controller type asked for *)

\* the controller types a caller supplies
SuppliedTypes == { "AUTO", "JOYSTICK", "PADDLES", "KEYBOARD" }

NextType == \E controller \in SuppliedTypes, rominfo \in BOOLEAN :
              DetectTypeStep(controller, rominfo)

SpecType == InitDetect /\ [][NextType]_vars

TypeDetected == detOp.name = "detectType"

\* C40: detectType returns a supplied type other than "AUTO" unchanged,
\* whatever autodetection finds and whatever the settings are, a
\* disagreement being only logged; it returns the autodetected type only
\* when the supplied type is "AUTO"
C40_ExplicitTypeOverrides ==
  TypeDetected =>
    IF detOp.controller = "AUTO"
      THEN detOp.type = autodetectPort(image, port)
      ELSE detOp.type = detOp.controller

\* what holds of the code: the supplied type is returned when "rominfo" is
\* off, and the autodetected one, with a note on a disagreement, when it is on
C40_ExplicitUnlessRominfo ==
  TypeDetected =>
    /\ IF detOp.controller = "AUTO" \/ detOp.rominfo
         THEN detOp.type = autodetectPort(image, port)
         ELSE detOp.type = detOp.controller
    /\ detOp.logged <=> /\ detOp.rominfo /\ detOp.controller # "AUTO"
                       /\ detOp.controller # autodetectPort(image, port)

\* with "rominfo" on, "JOYSTICK" was supplied and "PADDLES" is returned
C40_WitnessRominfo ==
  /\ TypeDetected /\ detOp.rominfo /\ detOp.logged
  /\ detOp.controller = "JOYSTICK" /\ detOp.type = "PADDLES"


\* with "rominfo" off, "JOYSTICK" was supplied and is returned although
\* autodetection finds "PADDLES"
C40_Witness ==
  /\ TypeDetected /\ ~detOp.rominfo /\ ~detOp.logged
  /\ detOp.controller = "JOYSTICK" /\ detOp.type = "JOYSTICK"
  /\ autodetectPort(image, port) = "PADDLES"

============================================================================
